---- MODULE Spec2Model ----
(***************************************************************************)
(* onCallGenkit: the Azure Functions HTTP adapter for Genkit flows.        *)
(*                                                                         *)
(* The model follows one HTTP invocation of the handler that onCallGenkit  *)
(* builds (standardHandler or streamingHandler) from its entry to the      *)
(* returned response and, in the SSE branch, to the close of the response  *)
(* stream.  Every await of the handler is a step of the model.  The        *)
(* request decoder and the context providers are, besides, run on their    *)
(* own over larger input sets (SpecDecode, SpecAuth).                      *)
(*                                                                         *)
(* Representation of values                                                *)
(*   JSON value    tagged tuple: <<"str", s>>, <<"null">>, <<"bool", b>>,  *)
(*                 <<"num", n>>,                                           *)
(*                 <<"obj", pairs>> (pairs: sequence of <<key, value>>),   *)
(*                 <<"arr", items>>                                        *)
(*   JSON text     sequence of tokens <<"p", punct>>, <<"s", string>>,     *)
(*                 <<"k", "null">>, <<"k", "true">>, <<"k", "false">>,     *)
(*                 <<"n", n>>, <<"w", " ">>                                *)
(*   header value  sequence of string fragments (their concatenation)      *)
(*   thrown value  record [cls, status, message, hasDetail, detail]        *)
(***************************************************************************)
EXTENDS Integers, Sequences, FiniteSets, TLC

\* Longest chunk sequence the flow's stream yields in one invocation.
MaxChunks == 2

-----------------------------------------------------------------------------
(* JSON values *)

Str(s) == <<"str", s>>
JNull == <<"null">>
Bool(b) == <<"bool", b>>
Num(n) == <<"num", n>>
Obj(pairs) == <<"obj", pairs>>
Arr(items) == <<"arr", items>>

IsObj(v) == v[1] = "obj"

HasKey(v, k) == IsObj(v) /\ \E j \in 1..Len(v[2]) : v[2][j][1] = k

\* v.k for an object that has the key k.
Get(v, k) == v[2][CHOOSE j \in 1..Len(v[2]) : v[2][j][1] = k][2]

\* Assigning a key of an object under construction: a repeated key keeps its
\* position and takes the new value.
Put(pairs, k, val) ==
    IF \E j \in 1..Len(pairs) : pairs[j][1] = k
    THEN [j \in 1..Len(pairs) |-> IF pairs[j][1] = k THEN <<k, val>> ELSE pairs[j]]
    ELSE Append(pairs, <<k, val>>)

-----------------------------------------------------------------------------
(* JSON text: JSON.parse and JSON.stringify *)

LBrace == <<"p", "{">>
RBrace == <<"p", "}">>
LBrack == <<"p", "[">>
RBrack == <<"p", "]">>
Colon == <<"p", ":">>
Comma == <<"p", ",">>
TNull == <<"k", "null">>
TTrue == <<"k", "true">>
TFalse == <<"k", "false">>
TNum(n) == <<"n", n>>
Space == <<"w", " ">>
TStr(s) == <<"s", s>>

ParseFail == [ok |-> FALSE, val |-> JNull, next |-> 0]

\* Whitespace between tokens is skipped.
RECURSIVE SkipWs(_, _)
SkipWs(t, i) == IF i <= Len(t) /\ t[i] = Space THEN SkipWs(t, i + 1) ELSE i

RECURSIVE ParseValue(_, _), ParseMembers(_, _, _), ParseElements(_, _, _)
ParseValue(t, i0) ==
    LET i == SkipWs(t, i0) IN
    IF i > Len(t) THEN ParseFail
    ELSE IF t[i][1] = "s" THEN [ok |-> TRUE, val |-> Str(t[i][2]), next |-> i + 1]
    ELSE IF t[i] = TNull THEN [ok |-> TRUE, val |-> JNull, next |-> i + 1]
    ELSE IF t[i] = TTrue THEN [ok |-> TRUE, val |-> Bool(TRUE), next |-> i + 1]
    ELSE IF t[i] = TFalse THEN [ok |-> TRUE, val |-> Bool(FALSE), next |-> i + 1]
    ELSE IF t[i][1] = "n" THEN [ok |-> TRUE, val |-> Num(t[i][2]), next |-> i + 1]
    ELSE IF t[i] = LBrace THEN
        LET j == SkipWs(t, i + 1) IN
        IF j <= Len(t) /\ t[j] = RBrace
        THEN [ok |-> TRUE, val |-> Obj(<<>>), next |-> j + 1]
        ELSE ParseMembers(t, j, <<>>)
    ELSE IF t[i] = LBrack THEN
        LET j == SkipWs(t, i + 1) IN
        IF j <= Len(t) /\ t[j] = RBrack
        THEN [ok |-> TRUE, val |-> Arr(<<>>), next |-> j + 1]
        ELSE ParseElements(t, j, <<>>)
    ELSE ParseFail

ParseMembers(t, i0, acc) ==
    LET i == SkipWs(t, i0) IN
    IF i > Len(t) \/ t[i][1] # "s" THEN ParseFail
    ELSE LET c == SkipWs(t, i + 1) IN
    IF c > Len(t) \/ t[c] # Colon THEN ParseFail
    ELSE LET r == ParseValue(t, c + 1) IN
    IF ~r.ok THEN ParseFail
    ELSE LET acc2 == Put(acc, t[i][2], r.val)
             n == SkipWs(t, r.next) IN
    IF n > Len(t) THEN ParseFail
    ELSE IF t[n] = RBrace THEN [ok |-> TRUE, val |-> Obj(acc2), next |-> n + 1]
    ELSE IF t[n] = Comma THEN ParseMembers(t, n + 1, acc2)
    ELSE ParseFail

ParseElements(t, i0, acc) ==
    LET r == ParseValue(t, i0) IN
    IF ~r.ok THEN ParseFail
    ELSE LET acc2 == Append(acc, r.val)
             n == SkipWs(t, r.next) IN
    IF n > Len(t) THEN ParseFail
    ELSE IF t[n] = RBrack THEN [ok |-> TRUE, val |-> Arr(acc2), next |-> n + 1]
    ELSE IF t[n] = Comma THEN ParseElements(t, n + 1, acc2)
    ELSE ParseFail

\* Mutant: what follows the first value of the text is ignored.
JSONParse_Lenient(t) ==
    LET r == ParseValue(t, 1) IN
    IF r.ok THEN [ok |-> TRUE, val |-> r.val] ELSE [ok |-> FALSE, val |-> JNull]

\* JSON.parse(text): [ok, val]; ok = FALSE is the SyntaxError.
JSONParse(t) ==
    LET r == ParseValue(t, 1) IN
    IF r.ok /\ SkipWs(t, r.next) = Len(t) + 1
    THEN [ok |-> TRUE, val |-> r.val]
    ELSE [ok |-> FALSE, val |-> JNull]

RECURSIVE JSONStringify(_), StringifyMembers(_, _), StringifyElements(_, _)
JSONStringify(v) ==
    IF v[1] = "str" THEN <<TStr(v[2])>>
    ELSE IF v[1] = "null" THEN <<TNull>>
    ELSE IF v[1] = "bool" THEN <<IF v[2] THEN TTrue ELSE TFalse>>
    ELSE IF v[1] = "num" THEN <<TNum(v[2])>>
    ELSE IF v[1] = "obj" THEN <<LBrace>> \o StringifyMembers(v[2], 1) \o <<RBrace>>
    ELSE <<LBrack>> \o StringifyElements(v[2], 1) \o <<RBrack>>

StringifyMembers(pairs, j) ==
    IF j > Len(pairs) THEN <<>>
    ELSE (IF j > 1 THEN <<Comma>> ELSE <<>>)
         \o <<TStr(pairs[j][1]), Colon>> \o JSONStringify(pairs[j][2])
         \o StringifyMembers(pairs, j + 1)

StringifyElements(items, j) ==
    IF j > Len(items) THEN <<>>
    ELSE (IF j > 1 THEN <<Comma>> ELSE <<>>)
         \o JSONStringify(items[j]) \o StringifyElements(items, j + 1)

-----------------------------------------------------------------------------
(* Thrown values *)

NoDetail == JNull

\* new UserFacingError(status, message)
UserFacingError(status, message) ==
    [cls |-> "UserFacingError", status |-> status, message |-> message,
     hasDetail |-> FALSE, detail |-> NoDetail]

\* new Error(message)
PlainError(message) ==
    [cls |-> "Error", status |-> "", message |-> message,
     hasDetail |-> FALSE, detail |-> NoDetail]

\* throw "text": a raised value that is no Error object; message holds
\* String(value).
NonError(text) ==
    [cls |-> "NonError", status |-> "", message |-> text,
     hasDetail |-> FALSE, detail |-> NoDetail]

NoError == [cls |-> "none", status |-> "", message |-> "",
            hasDetail |-> FALSE, detail |-> NoDetail]

InstanceOfError(e) == e.cls \in {"UserFacingError", "Error"}

-----------------------------------------------------------------------------
(* Maps with string keys (JavaScript objects used as records) *)

EmptyMap == <<>>

SetKey(m, k, v) == [x \in (DOMAIN m) \cup {k} |-> IF x = k THEN v ELSE m[x]]

\* { ...a, ...b }
Spread(a, b) ==
    [x \in (DOMAIN a) \cup (DOMAIN b) |-> IF x \in DOMAIN b THEN b[x] ELSE a[x]]

Undef == <<"undef">>
Some(kind, v) == <<kind, v>>
IsUndef(x) == x[1] = "undef"

\* list.join(", ") as the sequence of its fragments
RECURSIVE Join(_, _)
Join(list, j) ==
    IF j > Len(list) THEN <<>>
    ELSE (IF j > 1 THEN <<", ">> ELSE <<>>) \o <<list[j]>> \o Join(list, j + 1)

\* String.prototype.toLowerCase on the header names of the model
ToLowerCase(name) ==
    CASE name = "X-API-Key" -> "x-api-key"
      [] name = "X-Api-Key" -> "x-api-key"
      [] name = "Accept" -> "accept"
      [] name = "Origin" -> "origin"
      [] name = "Authorization" -> "authorization"
      [] name = "X-Request-ID" -> "x-request-id"
      [] OTHER -> name

-----------------------------------------------------------------------------
(* Request helpers *)

\* request.headers.get(name): case-insensitive, undefined when absent
HeadersGet(request, name) ==
    IF \E n \in DOMAIN request.headers : ToLowerCase(n) = ToLowerCase(name)
    THEN Some("string",
              request.headers[CHOOSE n \in DOMAIN request.headers :
                                  ToLowerCase(n) = ToLowerCase(name)])
    ELSE Undef

\* Mutant: the empty string counts as a value.
Truthy_EmptyIsValue(x) == ~IsUndef(x)

\* x || fallback for a string-or-undefined x
Truthy(x) == ~IsUndef(x) /\ x[2] # ""

getRequestOrigin(request) ==
    LET o == HeadersGet(request, "origin") IN IF Truthy(o) THEN o ELSE Undef

normalizeHeaders(request) ==
    [k \in {ToLowerCase(n) : n \in DOMAIN request.headers} |->
        request.headers[CHOOSE n \in DOMAIN request.headers : ToLowerCase(n) = k]]

\* url.searchParams.forEach: a repeated key keeps the last value
RECURSIVE QueryFold(_, _, _)
QueryFold(search, j, acc) ==
    IF j > Len(search) THEN acc
    ELSE QueryFold(search, j + 1, SetKey(acc, search[j][1], search[j][2]))

getQueryParams(request) == QueryFold(request.url.search, 1, EmptyMap)

toRequestData(request, input) ==
    [method |-> request.method, headers |-> normalizeHeaders(request), input |-> input]

-----------------------------------------------------------------------------
(* CORS Policy Builder *)

DefaultMaxAge == 86400

CorsFalse == <<"false">>
CorsTrue == <<"true">>
CorsUndefined == <<"undefined">>
CorsOptions(o) == <<"options", o>>

NoCorsOptions ==
    [origin |-> Undef, methods |-> Undef, allowedHeaders |-> Undef,
     exposedHeaders |-> Undef, credentials |-> Undef, maxAge |-> Undef]

\* Mutant: with an allow-list, the origin of the request is echoed whether it
\* is on the list or not.
buildCorsHeaders_EchoesOrigin(corsOptions, requestOrigin) ==
    IF corsOptions = CorsFalse THEN EmptyMap
    ELSE
    LET opts == IF corsOptions[1] = "options" THEN corsOptions[2] ELSE NoCorsOptions
        h0 == SetKey(EmptyMap, "Content-Type", <<"application/json">>)
        origin == IF IsUndef(opts.origin) THEN Some("string", "*") ELSE opts.origin
        h1 == IF origin[1] = "list"
              THEN IF Truthy(requestOrigin)
                   THEN SetKey(h0, "Access-Control-Allow-Origin", <<requestOrigin[2]>>)
                   ELSE h0
              ELSE SetKey(h0, "Access-Control-Allow-Origin", <<origin[2]>>)
        methods == IF IsUndef(opts.methods) THEN <<"POST", "OPTIONS">> ELSE opts.methods[2]
        h2 == SetKey(h1, "Access-Control-Allow-Methods", Join(methods, 1))
        allowedHeaders == IF IsUndef(opts.allowedHeaders)
                          THEN <<"Content-Type", "Authorization">>
                          ELSE opts.allowedHeaders[2]
        h3 == SetKey(h2, "Access-Control-Allow-Headers", Join(allowedHeaders, 1))
        maxAge == IF IsUndef(opts.maxAge) THEN DefaultMaxAge ELSE opts.maxAge[2]
    IN SetKey(h3, "Access-Control-Max-Age", <<ToString(maxAge)>>)

buildCorsHeaders(corsOptions, requestOrigin) ==
    IF corsOptions = CorsFalse THEN EmptyMap
    ELSE
    LET opts == IF corsOptions[1] = "options" THEN corsOptions[2] ELSE NoCorsOptions
        h0 == SetKey(EmptyMap, "Content-Type", <<"application/json">>)
        origin == IF IsUndef(opts.origin) THEN Some("string", "*") ELSE opts.origin
        h1 == IF origin[1] = "list"
              THEN IF Truthy(requestOrigin)
                      /\ \E j \in 1..Len(origin[2]) : origin[2][j] = requestOrigin[2]
                   THEN SetKey(h0, "Access-Control-Allow-Origin", <<requestOrigin[2]>>)
                   ELSE h0
              ELSE SetKey(h0, "Access-Control-Allow-Origin", <<origin[2]>>)
        methods == IF IsUndef(opts.methods) THEN <<"POST", "OPTIONS">> ELSE opts.methods[2]
        h2 == SetKey(h1, "Access-Control-Allow-Methods", Join(methods, 1))
        allowedHeaders == IF IsUndef(opts.allowedHeaders)
                          THEN <<"Content-Type", "Authorization">>
                          ELSE opts.allowedHeaders[2]
        h3 == SetKey(h2, "Access-Control-Allow-Headers", Join(allowedHeaders, 1))
        h4 == IF ~IsUndef(opts.exposedHeaders) /\ Len(opts.exposedHeaders[2]) > 0
              THEN SetKey(h3, "Access-Control-Expose-Headers", Join(opts.exposedHeaders[2], 1))
              ELSE h3
        h5 == IF ~IsUndef(opts.credentials) /\ opts.credentials[2]
              THEN SetKey(h4, "Access-Control-Allow-Credentials", <<"true">>)
              ELSE h4
        maxAge == IF IsUndef(opts.maxAge) THEN DefaultMaxAge ELSE opts.maxAge[2]
    IN SetKey(h5, "Access-Control-Max-Age", <<ToString(maxAge)>>)

-----------------------------------------------------------------------------
(* Request Decoder *)

Thrown(e) == [ok |-> FALSE, val |-> JNull, err |-> e]
Returned(v) == [ok |-> TRUE, val |-> v, err |-> NoError]

\* Mutant: the { data: ... } envelope is not unwrapped.
parseRequestBody_NoUnwrap(request) ==
    IF ~request.body.readable \/ request.body.text = <<>> THEN Returned(Obj(<<>>))
    ELSE LET parsed == JSONParse(request.body.text) IN
         IF ~parsed.ok
         THEN Thrown(UserFacingError("INVALID_ARGUMENT", "Invalid JSON in request body"))
         ELSE Returned(parsed.val)

\* Mutant: a falsy parsed value (null, "", 0, false) is replaced by {}.
parseRequestBody_FalsyIsEmpty(request) ==
    IF ~request.body.readable \/ request.body.text = <<>> THEN Returned(Obj(<<>>))
    ELSE LET parsed == JSONParse(request.body.text) IN
         IF ~parsed.ok
         THEN Thrown(UserFacingError("INVALID_ARGUMENT", "Invalid JSON in request body"))
         ELSE IF HasKey(parsed.val, "data") THEN Returned(Get(parsed.val, "data"))
         ELSE IF parsed.val \in {JNull, Str(""), Num(0), Bool(FALSE)} THEN Returned(Obj(<<>>))
         ELSE Returned(parsed.val)

\* body: [readable, text]; request.text() rejects when the body cannot be read.
parseRequestBody(request) ==
    IF ~request.body.readable THEN Returned(Obj(<<>>))
    ELSE IF request.body.text = <<>> THEN Returned(Obj(<<>>))
    ELSE LET parsed == JSONParse(request.body.text) IN
         IF ~parsed.ok
         THEN Thrown(UserFacingError("INVALID_ARGUMENT", "Invalid JSON in request body"))
         ELSE IF HasKey(parsed.val, "data")
              THEN Returned(Get(parsed.val, "data"))
              ELSE Returned(parsed.val)

-----------------------------------------------------------------------------
(* Context providers *)

MissingHeaderMessage(headerName) ==
    CASE headerName = "X-API-Key" -> "Missing required header: X-API-Key"
      [] headerName = "x-api-key" -> "Missing required header: x-api-key"
      [] headerName = "X-Request-ID" -> "Missing required header: X-Request-ID"
      [] OTHER -> "Missing required header: <name>"

InvalidHeaderMessage(headerName) ==
    CASE headerName = "X-API-Key" -> "Invalid value for header: X-API-Key"
      [] headerName = "x-api-key" -> "Invalid value for header: x-api-key"
      [] headerName = "X-Request-ID" -> "Invalid value for header: X-Request-ID"
      [] OTHER -> "Invalid value for header: <name>"

\* How a call of a context provider settles.  trace lists, in order, what the
\* call invoked: the providers it ran and the callbacks they called.
ProviderThrown(e) == [ok |-> FALSE, ctx |-> EmptyMap, err |-> e, trace |-> <<>>]
ProviderReturned(c) == [ok |-> TRUE, ctx |-> c, err |-> NoError, trace |-> <<>>]

\* request.headers[lowerHeaderName]; an absent and an empty value are both falsy
HeaderValue(requestData, lowerHeaderName) ==
    IF lowerHeaderName \in DOMAIN requestData.headers
    THEN Some("string", requestData.headers[lowerHeaderName])
    ELSE Undef

\* Mutant: a missing key is reported like a wrong key.
requireApiKey_MissingIsDenied(headerName, expectedValueOrValidator, requestData) ==
    LET apiKey == HeaderValue(requestData, ToLowerCase(headerName)) IN
    IF ~Truthy(apiKey) \/ (expectedValueOrValidator[1] = "literal"
                           /\ apiKey[2] # expectedValueOrValidator[2])
    THEN ProviderThrown(UserFacingError("PERMISSION_DENIED", "Invalid API key"))
    ELSE ProviderReturned([auth |-> [apiKey |-> apiKey[2]]])

\* Mutant: the header is looked up by the name as given, not lower-cased.
requireApiKey_CaseSensitive(headerName, expectedValueOrValidator, requestData) ==
    LET apiKey == HeaderValue(requestData, headerName) IN
    IF ~Truthy(apiKey)
    THEN ProviderThrown(UserFacingError("UNAUTHENTICATED", MissingHeaderMessage(headerName)))
    ELSE IF expectedValueOrValidator[1] = "literal"
              /\ apiKey[2] # expectedValueOrValidator[2]
    THEN ProviderThrown(UserFacingError("PERMISSION_DENIED", "Invalid API key"))
    ELSE IF expectedValueOrValidator[1] = "validator"
              /\ expectedValueOrValidator[2][1] = "throws"
    THEN ProviderThrown(expectedValueOrValidator[2][2])
    ELSE ProviderReturned([auth |-> [apiKey |-> apiKey[2]]])

\* Mutant: what the validator returns is taken as its verdict.
requireApiKey_ValidatorVerdict(headerName, expectedValueOrValidator, requestData) ==
    LET apiKey == HeaderValue(requestData, ToLowerCase(headerName)) IN
    IF ~Truthy(apiKey)
    THEN ProviderThrown(UserFacingError("UNAUTHENTICATED", MissingHeaderMessage(headerName)))
    ELSE IF expectedValueOrValidator[1] = "literal"
              /\ apiKey[2] # expectedValueOrValidator[2]
    THEN ProviderThrown(UserFacingError("PERMISSION_DENIED", "Invalid API key"))
    ELSE IF expectedValueOrValidator[1] = "validator"
              /\ expectedValueOrValidator[2][1] = "throws"
    THEN ProviderThrown(expectedValueOrValidator[2][2])
    ELSE IF expectedValueOrValidator[1] = "validator"
              /\ expectedValueOrValidator[2] = <<"returns", Bool(FALSE)>>
    THEN ProviderThrown(UserFacingError("PERMISSION_DENIED", "Invalid API key"))
    ELSE ProviderReturned([auth |-> [apiKey |-> apiKey[2]]])

\* validator: <<"literal", s>>, or <<"validator", v>> with the callback v being
\* <<"returns">> (returns undefined), <<"returns", value>> or <<"throws", e>>
requireApiKey(headerName, expectedValueOrValidator, requestData) ==
    LET apiKey == HeaderValue(requestData, ToLowerCase(headerName)) IN
    IF ~Truthy(apiKey)
    THEN ProviderThrown(UserFacingError("UNAUTHENTICATED", MissingHeaderMessage(headerName)))
    ELSE IF expectedValueOrValidator[1] = "literal"
              /\ apiKey[2] # expectedValueOrValidator[2]
    THEN ProviderThrown(UserFacingError("PERMISSION_DENIED", "Invalid API key"))
    ELSE IF expectedValueOrValidator[1] = "validator"
              /\ expectedValueOrValidator[2][1] = "throws"
    THEN ProviderThrown(expectedValueOrValidator[2][2])
    ELSE ProviderReturned([auth |-> [apiKey |-> apiKey[2]]])

\* Mutant: the expected value is not looked at.
requireHeader_AnyValue(headerName, expectedValue, requestData) ==
    LET value == HeaderValue(requestData, ToLowerCase(headerName)) IN
    IF ~Truthy(value)
    THEN ProviderThrown(UserFacingError("UNAUTHENTICATED", MissingHeaderMessage(headerName)))
    ELSE ProviderReturned(EmptyMap)

requireHeader(headerName, expectedValue, requestData) ==
    LET value == HeaderValue(requestData, ToLowerCase(headerName)) IN
    IF ~Truthy(value)
    THEN ProviderThrown(UserFacingError("UNAUTHENTICATED", MissingHeaderMessage(headerName)))
    ELSE IF ~IsUndef(expectedValue) /\ value[2] # expectedValue[2]
    THEN ProviderThrown(UserFacingError("PERMISSION_DENIED", InvalidHeaderMessage(headerName)))
    ELSE ProviderReturned(EmptyMap)

allowAll == ProviderReturned(EmptyMap)

\* The characters of the Authorization header values of the model
Chars(str) ==
    CASE str = "Bearer abc" -> <<"B", "e", "a", "r", "e", "r", " ", "a", "b", "c">>
      [] str = "bearer abc" -> <<"b", "e", "a", "r", "e", "r", " ", "a", "b", "c">>
      [] str = "BEARER xyz" -> <<"B", "E", "A", "R", "E", "R", " ", "x", "y", "z">>
      [] str = "Bearer  abc" -> <<"B", "e", "a", "r", "e", "r", " ", " ", "a", "b", "c">>
      [] str = "Basic abc" -> <<"B", "a", "s", "i", "c", " ", "a", "b", "c">>
      [] str = "Bearer" -> <<"B", "e", "a", "r", "e", "r">>
      [] str = "Bearer " -> <<"B", "e", "a", "r", "e", "r", " ">>
      [] str = "Bearerabc" -> <<"B", "e", "a", "r", "e", "r", "a", "b", "c">>
      [] str = "abc Bearer abc" -> <<"a", "b", "c", " ", "B", "e", "a", "r", "e", "r", " ", "a", "b", "c">>
      [] OTHER -> <<>>

\* Mutant: the scheme is matched in the case it is written in.
LowerChar_CaseSensitive(c) == c

\* The /i flag on the letters of the scheme
LowerChar(c) ==
    CASE c = "B" -> "b" [] c = "E" -> "e" [] c = "A" -> "a" [] c = "R" -> "r"
      [] OTHER -> c

\* \s
IsWhitespace(c) == c \in {" ", "\t"}

\* authHeader.match(/^Bearer\s+(.+)$/i): Undef for null, else match[1] as its
\* characters.  \s+ is greedy but leaves at least one character to (.+).
BearerMatch(chars) ==
    LET scheme == <<"b", "e", "a", "r", "e", "r">>
        n == Len(chars)
    IN
    IF n < Len(scheme) + 2 THEN Undef
    ELSE IF \E j \in 1..Len(scheme) : LowerChar(chars[j]) # scheme[j] THEN Undef
    ELSE IF ~IsWhitespace(chars[Len(scheme) + 1]) THEN Undef
    ELSE LET blanks == {j \in (Len(scheme) + 1)..n :
                           \A i \in (Len(scheme) + 1)..j : IsWhitespace(chars[i])}
             last == CHOOSE j \in blanks : \A i \in blanks : i <= j
             from == IF last = n THEN n ELSE last + 1
         IN Some("match", SubSeq(chars, from, n))

\* validateToken callbacks of the model:
\*   <<"accepts", token, ctx>>  returns ctx for token and raises for any other
\*   <<"returns", ctx>>         returns ctx for every token
\*   <<"throws", e>>            raises e for every token
ValidateToken(validateToken, token) ==
    CASE validateToken[1] = "accepts" ->
            IF token = validateToken[2] THEN ProviderReturned(validateToken[3])
            ELSE ProviderThrown(UserFacingError("PERMISSION_DENIED", "Invalid token"))
      [] validateToken[1] = "returns" -> ProviderReturned(validateToken[2])
      [] validateToken[1] = "throws" -> ProviderThrown(validateToken[2])

requireBearerToken(validateToken, requestData) ==
    LET authHeader == HeaderValue(requestData, "authorization") IN
    IF ~Truthy(authHeader)
    THEN ProviderThrown(UserFacingError("UNAUTHENTICATED", "Missing Authorization header"))
    ELSE LET match == BearerMatch(Chars(authHeader[2])) IN
    IF IsUndef(match)
    THEN ProviderThrown(UserFacingError("UNAUTHENTICATED",
            "Invalid Authorization header format. Expected: Bearer <token>"))
    ELSE LET token == match[2] IN
         [ValidateToken(validateToken, token) EXCEPT
             !.trace = << <<"validateToken", token>> >>]

\* error instanceof Error ? error : new Error(String(error))
AsError(error) ==
    IF InstanceOfError(error) THEN error ELSE PlainError(error.message)

\* The state of the for loop of allOf and anyOf: j is the next provider,
\* settled tells that the loop was left by return or throw.
LoopBegin ==
    [j |-> 1, mergedContext |-> EmptyMap, lastError |-> Undef,
     settled |-> FALSE, result |-> ProviderReturned(EmptyMap), trace |-> <<>>]

\* A context provider value:
\*   <<"allowAll">>, <<"requireApiKey", headerName, validator>>,
\*   <<"requireBearerToken", validateToken>>,
\*   <<"requireHeader", headerName, expectedValue>>,
\*   <<"allOf", providers>>, <<"anyOf", providers>>,
\*   <<"custom", r>>: a provider written by the application, which settles as r
RECURSIVE CallProvider(_, _), allOf(_, _, _), anyOf(_, _, _)

\* Mutant: the merge is written the other way round, the earlier provider's
\* value wins.
allOfIterate_EarlierWins(providers, loop, requestData) ==
    IF loop.j > Len(providers)
    THEN [loop EXCEPT !.settled = TRUE, !.result = ProviderReturned(loop.mergedContext)]
    ELSE LET context == CallProvider(providers[loop.j], requestData) IN
         IF context.ok
         THEN [loop EXCEPT !.j = @ + 1,
                           !.mergedContext = Spread(context.ctx, @),
                           !.trace = @ \o context.trace]
         ELSE [loop EXCEPT !.settled = TRUE,
                           !.result = ProviderThrown(context.err),
                           !.trace = @ \o context.trace]

\* One pass of allOf's loop: await provider(request), then the merge; after
\* the last provider, the return.
allOfIterate(providers, loop, requestData) ==
    IF loop.j > Len(providers)
    THEN [loop EXCEPT !.settled = TRUE, !.result = ProviderReturned(loop.mergedContext)]
    ELSE LET context == CallProvider(providers[loop.j], requestData) IN
         IF context.ok
         THEN [loop EXCEPT !.j = @ + 1,
                           !.mergedContext = Spread(@, context.ctx),
                           !.trace = @ \o context.trace]
         ELSE [loop EXCEPT !.settled = TRUE,
                           !.result = ProviderThrown(context.err),
                           !.trace = @ \o context.trace]

\* Mutant: the first failure is kept, later ones are dropped.
anyOfIterate_FirstFailure(providers, loop, requestData) ==
    IF loop.j > Len(providers)
    THEN [loop EXCEPT !.settled = TRUE,
                      !.result = IF IsUndef(loop.lastError)
                                 THEN ProviderThrown(UserFacingError("UNAUTHENTICATED", "Unauthorized"))
                                 ELSE ProviderThrown(loop.lastError[2])]
    ELSE LET context == CallProvider(providers[loop.j], requestData) IN
         IF context.ok
         THEN [loop EXCEPT !.settled = TRUE,
                           !.result = ProviderReturned(context.ctx),
                           !.trace = @ \o context.trace]
         ELSE [loop EXCEPT !.j = @ + 1,
                           !.lastError = IF IsUndef(@) THEN Some("error", AsError(context.err))
                                         ELSE @,
                           !.trace = @ \o context.trace]

\* One pass of anyOf's loop: try { return await provider(request) } catch
\* { lastError = ... }; after the last provider, the throw.
anyOfIterate(providers, loop, requestData) ==
    IF loop.j > Len(providers)
    THEN [loop EXCEPT !.settled = TRUE,
                      !.result = IF IsUndef(loop.lastError)
                                 THEN ProviderThrown(UserFacingError("UNAUTHENTICATED", "Unauthorized"))
                                 ELSE ProviderThrown(loop.lastError[2])]
    ELSE LET context == CallProvider(providers[loop.j], requestData) IN
         IF context.ok
         THEN [loop EXCEPT !.settled = TRUE,
                           !.result = ProviderReturned(context.ctx),
                           !.trace = @ \o context.trace]
         ELSE [loop EXCEPT !.j = @ + 1,
                           !.lastError = Some("error", AsError(context.err)),
                           !.trace = @ \o context.trace]

allOf(providers, loop, requestData) ==
    IF loop.settled THEN [loop.result EXCEPT !.trace = loop.trace]
    ELSE allOf(providers, allOfIterate(providers, loop, requestData), requestData)

anyOf(providers, loop, requestData) ==
    IF loop.settled THEN [loop.result EXCEPT !.trace = loop.trace]
    ELSE anyOf(providers, anyOfIterate(providers, loop, requestData), requestData)

\* provider(requestData); the trace of the call begins with the provider.
CallProvider(provider, requestData) ==
    LET r == CASE provider[1] = "allowAll" -> allowAll
               [] provider[1] = "requireApiKey" ->
                     requireApiKey(provider[2], provider[3], requestData)
               [] provider[1] = "requireBearerToken" ->
                     requireBearerToken(provider[2], requestData)
               [] provider[1] = "requireHeader" ->
                     requireHeader(provider[2], provider[3], requestData)
               [] provider[1] = "allOf" -> allOf(provider[2], LoopBegin, requestData)
               [] provider[1] = "anyOf" -> anyOf(provider[2], LoopBegin, requestData)
               [] provider[1] = "custom" -> provider[2]
    IN [r EXCEPT !.trace = << <<"provider", provider>> >> \o @]

NoProvider == <<"undefined">>

-----------------------------------------------------------------------------
(* Context Resolver *)

buildAzureFunctionsContext(request, azureContext) ==
    [azureFunctions |->
        [request |-> [url |-> request.url.href,
                      headers |-> normalizeHeaders(request),
                      query |-> getQueryParams(request),
                      params |-> request.params],
         context |-> [functionName |-> azureContext.functionName,
                      invocationId |-> azureContext.invocationId]]]

\* Mutant: a failure of the context provider is swallowed and the request goes
\* on with the platform context alone.
resolveActionContext_SwallowsFailure(opts, request, azureContext, input) ==
    LET azureFunctionsContext == buildAzureFunctionsContext(request, azureContext) IN
    IF opts.contextProvider # NoProvider
    THEN LET r == CallProvider(opts.contextProvider, toRequestData(request, input)) IN
         [ok |-> TRUE,
          ctx |-> IF r.ok THEN Spread(azureFunctionsContext, r.ctx) ELSE azureFunctionsContext,
          err |-> NoError, called |-> TRUE]
    ELSE [ok |-> TRUE, ctx |-> azureFunctionsContext, err |-> NoError, called |-> FALSE]

\* Mutant: the spread is written the other way round, the platform's fields
\* override the provider's.
resolveActionContext_PlatformWins(opts, request, azureContext, input) ==
    LET azureFunctionsContext == buildAzureFunctionsContext(request, azureContext) IN
    IF opts.contextProvider # NoProvider
    THEN LET r == CallProvider(opts.contextProvider, toRequestData(request, input)) IN
         IF r.ok
         THEN [ok |-> TRUE, ctx |-> Spread(r.ctx, azureFunctionsContext),
               err |-> NoError, called |-> TRUE]
         ELSE [ok |-> FALSE, ctx |-> EmptyMap, err |-> r.err, called |-> TRUE]
    ELSE [ok |-> TRUE, ctx |-> azureFunctionsContext, err |-> NoError, called |-> FALSE]

\* [ok, ctx, err, called]: called tells whether opts.contextProvider was invoked
resolveActionContext(opts, request, azureContext, input) ==
    LET azureFunctionsContext == buildAzureFunctionsContext(request, azureContext) IN
    IF opts.contextProvider # NoProvider
    THEN LET r == CallProvider(opts.contextProvider, toRequestData(request, input)) IN
         IF r.ok
         THEN [ok |-> TRUE, ctx |-> Spread(azureFunctionsContext, r.ctx),
               err |-> NoError, called |-> TRUE]
         ELSE [ok |-> FALSE, ctx |-> EmptyMap, err |-> r.err, called |-> TRUE]
    ELSE [ok |-> TRUE, ctx |-> azureFunctionsContext, err |-> NoError, called |-> FALSE]

-----------------------------------------------------------------------------
(* Error Normalizer *)

\* genkit's kind-to-status table
getHttpStatus(error) ==
    IF error.cls # "UserFacingError" THEN 500
    ELSE CASE error.status = "INVALID_ARGUMENT" -> 400
           [] error.status = "UNAUTHENTICATED" -> 401
           [] error.status = "PERMISSION_DENIED" -> 403
           [] error.status = "NOT_FOUND" -> 404
           [] OTHER -> 500

\* The FlowErrorResponse of an error
getCallableJSON(error) ==
    IF error.cls = "UserFacingError"
    THEN Obj(<< <<"error",
                  Obj(<< <<"status", Str(error.status)>>,
                         <<"message", Str(error.message)>> >>
                      \o (IF error.hasDetail THEN << <<"details", error.detail>> >> ELSE <<>>))>> >>)
    ELSE Obj(<< <<"error",
                  Obj(<< <<"status", Str("INTERNAL")>>,
                         <<"message", Str("Internal Error")>> >>)>> >>)

\* Mutant: the raised value is handed to the override as it is.
CoerceToError_Identity(error) == error

\* error instanceof Error ? error : new Error(String(error))
CoerceToError(error) ==
    IF InstanceOfError(error) THEN error ELSE PlainError(error.message)

NoOnError == <<"undefined">>

\* The opts.onError callbacks of the model:
\*   <<"echo">>    returns { statusCode: 503, message: error.message }
\*   <<"throws">>  raises
OnErrorResult(onError, error) ==
    IF onError[1] = "echo"
    THEN [ok |-> TRUE, statusCode |-> 503,
          message |-> IF InstanceOfError(error) THEN Some("string", error.message) ELSE Undef,
          err |-> NoError]
    ELSE [ok |-> FALSE, statusCode |-> 0, message |-> Undef,
          err |-> PlainError("onError failed")]

NoBody == <<"none">>
JsonBody(v) == <<"json", v>>
StreamBody == <<"stream">>

NoResponse == [status |-> 0, headers |-> EmptyMap, body |-> NoBody]

\* [ok, response, err, arg]: ok = FALSE when the override raised; arg is what
\* the override was called with (Undef when it was not called)
buildErrorResponse(opts, error, corsHeaders) ==
    IF opts.onError # NoOnError
    THEN LET arg == CoerceToError(error)
             customError == OnErrorResult(opts.onError, arg) IN
         IF customError.ok
         THEN [ok |-> TRUE,
               response |->
                  [status |-> customError.statusCode,
                   headers |-> corsHeaders,
                   body |-> JsonBody(Obj(<< <<"error",
                        Obj(<< <<"status", Str("INTERNAL")>> >>
                            \o (IF IsUndef(customError.message) THEN <<>>
                                ELSE << <<"message", Str(customError.message[2])>> >>))>> >>))],
               err |-> NoError, arg |-> Some("error", arg)]
         ELSE [ok |-> FALSE, response |-> NoResponse, err |-> customError.err,
               arg |-> Some("error", arg)]
    ELSE [ok |-> TRUE,
          response |-> [status |-> getHttpStatus(error),
                        headers |-> corsHeaders,
                        body |-> JsonBody(getCallableJSON(error))],
          err |-> NoError, arg |-> Undef]

-----------------------------------------------------------------------------
(* Inputs of the model: requests, configurations, flows *)

\* {"data":{"subject":"cats"}}
BodyWrapped ==
    <<LBrace, TStr("data"), Colon, LBrace, TStr("subject"), Colon, TStr("cats"),
      RBrace, RBrace>>
\* {"subject":"cats"}
BodyBare == <<LBrace, TStr("subject"), Colon, TStr("cats"), RBrace>>
\* {"data":
BodyMalformed == <<LBrace, TStr("data"), Colon>>

Bodies == {<<>>, BodyWrapped, BodyBare, BodyMalformed}

Methods == {"POST", "OPTIONS"}

AcceptValues == {"application/json", "text/event-stream"}
ApiKeyValues == {"secret", "wrong"}
OriginValues == {"https://a.com", "https://b.com"}

\* The header maps a request can carry: each header present or absent.
OptionalHeader(name, values) ==
    {EmptyMap} \cup {SetKey(EmptyMap, name, v) : v \in values}

HeaderMaps ==
    {Spread(Spread(a, k), o) :
        a \in OptionalHeader("accept", AcceptValues),
        k \in OptionalHeader("X-API-Key", ApiKeyValues),
        o \in OptionalHeader("origin", OriginValues)}

Url == [href |-> "https://host/api/jokeFlow", search |-> <<>>]

Requests ==
    {[method |-> m, url |-> Url, headers |-> h, params |-> EmptyMap,
      body |-> [readable |-> TRUE, text |-> b]] :
        m \in Methods, h \in HeaderMaps, b \in Bodies}

\* String.prototype.includes("text/event-stream") on the Accept values
IncludesEventStream(accept) == accept = "text/event-stream"

AllowList == CorsOptions([NoCorsOptions EXCEPT !.origin = Some("list", <<"https://a.com">>)])

CorsSettings == {CorsUndefined, CorsFalse, AllowList}

\* What a provider of the application returns: an auth field, and a field of
\* the name the platform-derived context uses
TenantContext ==
    [auth |-> [uid |-> "u1"],
     azureFunctions |->
        [request |-> [url |-> "", headers |-> EmptyMap, query |-> EmptyMap,
                      params |-> EmptyMap],
         context |-> [functionName |-> "tenant", invocationId |-> "tenant"]]]

Providers ==
    {NoProvider,
     <<"requireApiKey", "X-API-Key", <<"literal", "secret">> >>,
     <<"custom", ProviderThrown(NonError("denied"))>>,
     <<"custom", ProviderReturned(TenantContext)>>}

OnErrors == {NoOnError, <<"echo">>, <<"throws">>}

OptsSet ==
    {[cors |-> c, contextProvider |-> p, onError |-> oe, debug |-> d] :
        c \in CorsSettings, p \in Providers, oe \in OnErrors, d \in BOOLEAN}

\* What the flow raises when it fails
FlowErrors ==
    {[UserFacingError("NOT_FOUND", "No such subject") EXCEPT
         !.hasDetail = TRUE, !.detail = Str("cats")],
     PlainError("boom"),
     NonError("oops")}

Joke == Obj(<< <<"joke", Str("a b")>> >>)

\* flow.run settles as run; flow.stream yields chunks of Chunks and settles its
\* output with a value of Outputs or raises an error of FlowErrors.
\* flow.__action is undefined, or carries a name that may be undefined.
Named(name) == <<"action", Some("string", name)>>
Nameless == <<"action", Undef>>

Flows ==
    {[action |-> Named("jokeFlow"), run |-> r] :
        r \in {Returned(Joke)} \cup {Thrown(e) : e \in FlowErrors}}

Chunks == {Str("a"), Str("b")}
Outputs == {Joke}

-----------------------------------------------------------------------------
(* State *)

VARIABLES
    opts,   \* the options onCallGenkit was called with (streaming is per handler)
    flow,   \* the flow it wraps
    inv,    \* the invocations of the handler, by id
    dec,    \* a call of parseRequestBody on its own
    auth,   \* a call of a context provider on its own
    app     \* the call of onCallGenkit and the direct use of what it returns

vars == <<opts, flow, inv, dec, auth, app>>

Ids == {1, 2}

NoCalls == [text |-> 0, provider |-> 0, run |-> 0, stream |-> 0,
            normalize |-> 0, onError |-> 0, callableJSON |-> 0]

Idle ==
    [pc |-> "idle", handler |-> "none", streaming |-> FALSE, debug |-> FALSE,
     request |-> [method |-> "", url |-> Url, headers |-> EmptyMap,
                  params |-> EmptyMap, body |-> [readable |-> TRUE, text |-> <<>>]],
     azureContext |-> [functionName |-> "", invocationId |-> ""],
     corsHeaders |-> EmptyMap, input |-> JNull, actionContext |-> EmptyMap,
     caught |-> NoError, response |-> NoResponse, rejection |-> NoError,
     sse |-> <<>>, streamState |-> "none", closes |-> 0,
     flowCalls |-> <<>>, flowChunks |-> <<>>, flowStreamEnded |-> FALSE,
     flowOutput |-> Undef,
     onErrorArg |-> Undef, calls |-> NoCalls, log |-> <<>>]

\* No call of the decoder, of a provider
NoDecode ==
    [pc |-> "idle", request |-> Idle.request, of |-> Undef, result |-> Returned(JNull)]
NoAuth ==
    [pc |-> "idle", provider |-> <<"undefined">>, request |-> Idle.request,
     requestData |-> toRequestData(Idle.request, JNull),
     loop |-> LoopBegin, result |-> ProviderReturned(EmptyMap)]

\* No call of onCallGenkit, no use of a handle
NoDirectCall ==
    [pc |-> "idle", op |-> "", input |-> JNull, options |-> Undef,
     providerCalls |-> 0, flowCalls |-> <<>>, result |-> Returned(JNull)]
NotRegistered ==
    [pc |-> "start", triggers |-> <<>>, returned |-> Undef, call |-> NoDirectCall]

InvocationId(i) == IF i = 1 THEN "inv-1" ELSE "inv-2"

\* const flowName = flow.__action?.name || "unknown"
flowName ==
    IF IsUndef(flow.action) \/ ~Truthy(flow.action[2]) THEN "unknown"
    ELSE flow.action[2][2]

\* The platform dispatches request to the handler of a registration whose
\* opts.streaming is streaming; the handler has closed over opts.
Dispatched(i, request, streaming) ==
    [Idle EXCEPT !.pc = "start", !.handler = "pending", !.streaming = streaming,
                 !.debug = opts.debug,
                 !.request = request,
                 !.azureContext = [functionName |-> flowName,
                                   invocationId |-> InvocationId(i)]]

Init ==
    /\ opts \in OptsSet
    /\ flow \in Flows
    /\ \E request \in Requests, streaming \in BOOLEAN :
          inv = [i \in Ids |-> IF i = 1 THEN Dispatched(i, request, streaming) ELSE Idle]
    /\ dec = NoDecode
    /\ auth = NoAuth
    /\ app = NotRegistered

-----------------------------------------------------------------------------
(* The handlers: what each step does to the invocation v *)

Bump(calls, f) == [calls EXCEPT ![f] = @ + 1]

\* data: <json>\n\n
SseRecord(v) == << <<"p", "data: ">> >> \o JSONStringify(v) \o << <<"p", "\n\n">> >>

MessageRecord(chunk) == SseRecord(Obj(<< <<"message", chunk>> >>))
ResultRecord(result) == SseRecord(Obj(<< <<"result", result>> >>))

SseHeaders(corsHeaders) ==
    SetKey(SetKey(SetKey(corsHeaders, "Content-Type", <<"text/event-stream">>),
                  "Cache-Control", <<"no-cache">>),
           "Connection", <<"keep-alive">>)

clientWantsStreaming(request) ==
    LET accept == HeadersGet(request, "accept")
        acceptHeader == IF Truthy(accept) THEN accept[2] ELSE ""
    IN IncludesEventStream(acceptHeader)

\* The log lines of the handler's entry (opts.debug)
EntryLog(v) ==
    IF ~v.debug THEN <<>>
    ELSE IF v.streaming THEN <<"Stream request">> ELSE <<"Request", "Headers">>

\* Mutant: no preflight short-circuit, OPTIONS is handled like any other method.
HandlerEntry_NoPreflight(v) ==
    [v EXCEPT !.pc = "readBody",
              !.corsHeaders = buildCorsHeaders(opts.cors, getRequestOrigin(v.request)),
              !.log = @ \o EntryLog(v),
              !.calls = Bump(@, "text")]

\* standardHandler / streamingHandler up to the first await: the CORS headers,
\* the OPTIONS preflight, and the call of request.text().
HandlerEntry(v) ==
    LET corsHeaders == buildCorsHeaders(opts.cors, getRequestOrigin(v.request)) IN
    IF v.request.method = "OPTIONS"
    THEN [v EXCEPT !.pc = "done", !.handler = "returned",
                   !.corsHeaders = corsHeaders,
                   !.response = [status |-> 204, headers |-> corsHeaders, body |-> NoBody]]
    ELSE [v EXCEPT !.pc = "readBody", !.corsHeaders = corsHeaders,
                   !.log = @ \o EntryLog(v),
                   !.calls = Bump(@, "text")]

\* Mutant: the context is resolved first, the decoding failure is raised after.
AwaitInput_ContextFirst(v) ==
    LET r == parseRequestBody(v.request)
        c == resolveActionContext(opts, v.request, v.azureContext, JNull) IN
    IF r.ok
    THEN [v EXCEPT !.pc = "resolve", !.input = r.val]
    ELSE [v EXCEPT !.pc = "catch", !.caught = r.err,
                   !.calls = IF c.called THEN Bump(@, "provider") ELSE @]

\* const input = await parseRequestBody(request)
AwaitInput(v) ==
    LET r == parseRequestBody(v.request) IN
    IF r.ok
    THEN [v EXCEPT !.pc = "resolve", !.input = r.val]
    ELSE [v EXCEPT !.pc = "catch", !.caught = r.err]

\* Mutant: the request is kept in a variable the invocations share.
AwaitContext_SharedRequest(v) ==
    LET r == resolveActionContext(opts, inv[1].request, v.azureContext, v.input)
        calls == IF r.called THEN Bump(v.calls, "provider") ELSE v.calls IN
    IF r.ok
    THEN [v EXCEPT !.pc = "execute", !.actionContext = r.ctx, !.calls = calls]
    ELSE [v EXCEPT !.pc = "catch", !.caught = r.err, !.calls = calls]

\* Mutant: the streaming handler opens the stream whatever the provider did.
AwaitContext_StreamAnyway(v) ==
    LET r == resolveActionContext(opts, v.request, v.azureContext, v.input)
        calls == IF r.called THEN Bump(v.calls, "provider") ELSE v.calls IN
    IF r.ok \/ (v.streaming /\ clientWantsStreaming(v.request))
    THEN [v EXCEPT !.pc = "execute", !.actionContext = r.ctx, !.calls = calls]
    ELSE [v EXCEPT !.pc = "catch", !.caught = r.err, !.calls = calls]

\* const actionContext = await resolveActionContext(request, azureContext, input)
AwaitContext(v) ==
    LET r == resolveActionContext(opts, v.request, v.azureContext, v.input)
        calls == IF r.called THEN Bump(v.calls, "provider") ELSE v.calls IN
    IF r.ok
    THEN [v EXCEPT !.pc = "execute", !.actionContext = r.ctx, !.calls = calls]
    ELSE [v EXCEPT !.pc = "catch", !.caught = r.err, !.calls = calls]

\* Mutant: the streaming handler ignores the Accept header.
SseBranch_Always(v) == v.streaming

\* The SSE branch is taken by the streaming handler for a client that accepts
\* text/event-stream.
SseBranch(v) == v.streaming /\ clientWantsStreaming(v.request)

\* await flow.run(input, { context: actionContext }) and the success response,
\* in standardHandler and in the fallback of streamingHandler
AwaitRun(v) ==
    LET before == IF v.debug /\ ~v.streaming THEN <<"Running flow">> ELSE <<>>
        after == IF v.debug /\ ~v.streaming THEN <<"Flow completed">> ELSE <<>>
        called == [v EXCEPT !.calls = Bump(@, "run"),
                            !.flowCalls = Append(@, <<"run", v.input, v.actionContext>>)] IN
    IF flow.run.ok
    THEN [called EXCEPT !.pc = "done", !.handler = "returned",
                        !.log = @ \o before \o after,
                        !.response = [status |-> 200, headers |-> v.corsHeaders,
                                      body |-> JsonBody(Obj(<< <<"result", flow.run.val>> >>))]]
    ELSE [called EXCEPT !.pc = "catch", !.caught = flow.run.err, !.log = @ \o before]

\* Mutant: a first failure of flow.run is retried.
HandlerCatch_RetriesFlow(v) ==
    IF v.calls.run = 1
    THEN [v EXCEPT !.pc = "execute"]
    ELSE LET r == buildErrorResponse(opts, v.caught, v.corsHeaders) IN
         IF r.ok
         THEN [v EXCEPT !.pc = "done", !.handler = "returned", !.response = r.response]
         ELSE [v EXCEPT !.pc = "done", !.handler = "rejected", !.rejection = r.err]

\* Mutant: with debug on, the error response carries the caught error as is.
HandlerCatch_DebugDetails(v) ==
    LET r == buildErrorResponse(opts, v.caught, v.corsHeaders)
        logged == [v EXCEPT !.log = Append(@, IF v.streaming THEN "Stream error" ELSE "Error"),
                            !.calls = IF IsUndef(r.arg) THEN Bump(@, "normalize")
                                      ELSE Bump(Bump(@, "normalize"), "onError"),
                            !.onErrorArg = r.arg] IN
    IF r.ok
    THEN [logged EXCEPT !.pc = "done", !.handler = "returned",
                        !.response = IF v.debug
                                     THEN [r.response EXCEPT
                                             !.body = JsonBody(Str(v.caught.message))]
                                     ELSE r.response]
    ELSE [logged EXCEPT !.pc = "done", !.handler = "rejected", !.rejection = r.err]

\* catch (error) of the handlers: azureContext.error and buildErrorResponse
HandlerCatch(v) ==
    LET r == buildErrorResponse(opts, v.caught, v.corsHeaders)
        logged == [v EXCEPT !.log = Append(@, IF v.streaming THEN "Stream error" ELSE "Error"),
                            !.calls = IF IsUndef(r.arg) THEN Bump(@, "normalize")
                                      ELSE Bump(Bump(@, "normalize"), "onError"),
                            !.onErrorArg = r.arg] IN
    IF r.ok
    THEN [logged EXCEPT !.pc = "done", !.handler = "returned", !.response = r.response]
    ELSE [logged EXCEPT !.pc = "done", !.handler = "rejected", !.rejection = r.err]

\* Mutant: start has no catch, the failure errors the stream.
StreamCatch_Unhandled(v, error) ==
    [v EXCEPT !.pc = "done", !.caught = error, !.streamState = "errored"]

\* catch (error) of ReadableStream.start: one error record, then close
StreamCatch(v, error) ==
    [v EXCEPT !.pc = "done",
              !.caught = error,
              !.log = Append(@, "Stream error"),
              !.calls = Bump(@, "callableJSON"),
              !.sse = Append(@, SseRecord(getCallableJSON(error))),
              !.streamState = "closed",
              !.closes = @ + 1]

\* new ReadableStream({ start }): start calls flow.stream and suspends on the
\* first chunk; the handler returns the response that carries the stream.
StreamStart(v) ==
    [v EXCEPT !.pc = "streaming", !.handler = "returned",
              !.calls = Bump(@, "stream"),
              !.flowCalls = Append(@, <<"stream", v.input, v.actionContext>>),
              !.streamState = "open",
              !.response = [status |-> 200, headers |-> SseHeaders(v.corsHeaders),
                            body |-> StreamBody]]

\* Mutant: the record of a chunk is put in front of the records written so far.
StreamLoop_Reordered(v, chunk) ==
    [v EXCEPT !.flowChunks = Append(@, chunk),
              !.sse = <<MessageRecord(chunk)>> \o @]

\* Mutant: the chunks are collected, nothing is written while the flow runs.
StreamLoop_Withheld(v, chunk) ==
    [v EXCEPT !.flowChunks = Append(@, chunk)]

\* for await (const chunk of stream): one chunk, its record enqueued
StreamLoop(v, chunk) ==
    [v EXCEPT !.flowChunks = Append(@, chunk),
              !.sse = Append(@, MessageRecord(chunk))]

\* Mutant: the failure handling runs after the result record as well.
StreamFinish_ThenError(v, result) ==
    [v EXCEPT !.pc = "done",
              !.flowOutput = Some("value", result),
              !.sse = @ \o <<ResultRecord(result), SseRecord(getCallableJSON(PlainError("late")))>>,
              !.streamState = "closed",
              !.closes = @ + 1]

\* const result = await output; the result record, close
StreamFinish(v, result) ==
    [v EXCEPT !.pc = "done",
              !.flowOutput = Some("value", result),
              !.sse = Append(@, ResultRecord(result)),
              !.streamState = "closed",
              !.closes = @ + 1,
              !.log = @ \o (IF v.debug THEN <<"Streaming flow completed">> ELSE <<>>)]

-----------------------------------------------------------------------------
(* Actions: one per await of the handler *)

Set(i, v) == inv' = [inv EXCEPT ![i] = v] /\ UNCHANGED <<opts, flow, dec, auth, app>>

Entry(i) ==
    /\ inv[i].pc = "start"
    /\ Set(i, HandlerEntry(inv[i]))

DecodeBody(i) ==
    /\ inv[i].pc = "readBody"
    /\ Set(i, AwaitInput(inv[i]))

ResolveContext(i) ==
    /\ inv[i].pc = "resolve"
    /\ Set(i, AwaitContext(inv[i]))

RunFlow(i) ==
    /\ inv[i].pc = "execute"
    /\ ~SseBranch(inv[i])
    /\ Set(i, AwaitRun(inv[i]))

HandleError(i) ==
    /\ inv[i].pc = "catch"
    /\ Set(i, HandlerCatch(inv[i]))

OpenStream(i) ==
    /\ inv[i].pc = "execute"
    /\ SseBranch(inv[i])
    /\ Set(i, StreamStart(inv[i]))

\* The flow yields a chunk
StreamChunk(i) ==
    /\ inv[i].pc = "streaming"
    /\ Len(inv[i].flowChunks) < MaxChunks
    /\ \E chunk \in Chunks : Set(i, StreamLoop(inv[i], chunk))

\* The chunk sequence raises
StreamFails(i) ==
    /\ inv[i].pc = "streaming"
    /\ \E error \in FlowErrors : Set(i, StreamCatch(inv[i], error))

\* The chunk sequence ends: the handler awaits the output
StreamEnds(i) ==
    /\ inv[i].pc = "streaming"
    /\ Set(i, [inv[i] EXCEPT !.pc = "awaitOutput", !.flowStreamEnded = TRUE])

\* The output promise resolves
OutputResolves(i) ==
    /\ inv[i].pc = "awaitOutput"
    /\ \E result \in Outputs : Set(i, StreamFinish(inv[i], result))

\* The output promise rejects
OutputRejects(i) ==
    /\ inv[i].pc = "awaitOutput"
    /\ \E error \in FlowErrors :
          Set(i, StreamCatch([inv[i] EXCEPT !.flowOutput = Some("error", error)], error))

Step(i) ==
    \/ Entry(i)
    \/ DecodeBody(i)
    \/ ResolveContext(i)
    \/ RunFlow(i)
    \/ HandleError(i)
    \/ OpenStream(i)
    \/ StreamChunk(i)
    \/ StreamFails(i)
    \/ StreamEnds(i)
    \/ OutputResolves(i)
    \/ OutputRejects(i)

Next == \E i \in Ids : Step(i)

\* One request, dispatched to the handler of a registration with or without
\* opts.streaming
Spec == Init /\ [][Next]_vars

\* The same request dispatched to two registrations of the same flow and
\* options, the first without and the second with opts.streaming
PairRequests == {r \in Requests : "origin" \notin DOMAIN r.headers}

InitPair ==
    /\ opts \in {o \in OptsSet : o.cors = CorsUndefined}
    /\ flow \in Flows
    /\ \E request \in PairRequests :
          inv = [i \in Ids |-> Dispatched(i, request, i = 2)]
    /\ dec = NoDecode
    /\ auth = NoAuth
    /\ app = NotRegistered

SpecPair == InitPair /\ [][Next]_vars

\* Two requests in flight on the same handler: they differ in origin and body,
\* and may differ in method, Accept and API key
BodyDogs ==
    <<LBrace, TStr("data"), Colon, LBrace, TStr("subject"), Colon, TStr("dogs"),
      RBrace, RBrace>>

ConcurrentPairs ==
    {<<first, second>> \in Requests \X
        {[r EXCEPT !.body.text = b] : r \in Requests, b \in {BodyDogs, BodyMalformed}} :
        /\ first.method = "POST" /\ first.body.text = BodyWrapped
        /\ DOMAIN first.headers = {"accept", "X-API-Key", "origin"}
        /\ first.headers["accept"] = "text/event-stream"
        /\ first.headers["X-API-Key"] = "secret"
        /\ first.headers["origin"] = "https://a.com"
        /\ DOMAIN second.headers = {"accept", "X-API-Key", "origin"}
        /\ second.headers["origin"] = "https://b.com"}

InitConcurrent ==
    /\ opts \in {o \in OptsSet : o.onError = NoOnError /\ ~o.debug}
    /\ flow \in {f \in Flows : f.run.ok \/ f.run.err = PlainError("boom")}
    /\ \E pair \in ConcurrentPairs, streaming \in BOOLEAN :
          inv = [i \in Ids |-> Dispatched(i, pair[i], streaming)]
    /\ dec = NoDecode
    /\ auth = NoAuth
    /\ app = NotRegistered

SpecConcurrent == InitConcurrent /\ [][Next]_vars

\* The same request and platform context given to two registrations of the
\* same flow whose options differ in debug alone: 1 without, 2 with
DebugRequests ==
    {r \in PairRequests :
        /\ r.body.text \in {BodyWrapped, BodyMalformed}
        /\ "X-API-Key" \in DOMAIN r.headers => r.headers["X-API-Key"] = "secret"}

InitDebug ==
    /\ opts \in {o \in OptsSet : o.cors = CorsUndefined /\ ~o.debug}
    /\ flow \in {f \in Flows : f.run.ok \/ f.run.err = PlainError("boom")}
    /\ \E request \in DebugRequests, streaming \in BOOLEAN :
          inv = [i \in Ids |->
                   [Dispatched(1, request, streaming) EXCEPT !.debug = (i = 2)]]
    /\ dec = NoDecode
    /\ auth = NoAuth
    /\ app = NotRegistered

SpecDebug == InitDebug /\ [][Next]_vars

-----------------------------------------------------------------------------
(* onCallGenkit itself and the direct use of the object it returns *)

\* Flows with and without a declared name
HandleFlows ==
    {[f EXCEPT !.action = a] : f \in Flows, a \in {Named("jokeFlow"), Nameless, Undef}}

\* options of run and stream: absent, without context, with a context
DirectOptions == {Undef, Some("options", Undef), Some("options", Some("context", TenantContext))}

DirectInputs == {Obj(<< <<"subject", Str("cats")>> >>), JNull}

InitHandle ==
    /\ opts \in OptsSet
    /\ flow \in HandleFlows
    /\ inv = [i \in Ids |-> Idle]
    /\ dec = NoDecode
    /\ auth = NoAuth
    /\ app = NotRegistered

SetApp(a) == app' = a /\ UNCHANGED <<opts, flow, inv, dec, auth>>

\* onCallGenkit(opts, flow): picks the handler, builds the callable object,
\* registers the trigger with app.http and returns the object.
Register ==
    /\ app.pc = "start"
    /\ \E streaming \in BOOLEAN :
          LET handler == IF streaming THEN "streamingHandler" ELSE "standardHandler" IN
          SetApp([app EXCEPT
                    !.pc = "registered",
                    !.triggers = Append(@, [name |-> flowName,
                                            methods |-> <<"POST", "OPTIONS">>,
                                            authLevel |-> "anonymous",
                                            handler |-> handler]),
                    !.returned = Some("callableFunction",
                                      [handler |-> handler, flowName |-> flowName])])

\* options?.context
OptionsContext(options) == IF IsUndef(options) THEN Undef ELSE options[2]

\* callableFunction.run(input, options)
DirectRun ==
    /\ app.pc = "registered" /\ app.call.pc = "idle"
    /\ \E input \in DirectInputs, options \in DirectOptions :
          SetApp([app EXCEPT !.call =
                    [pc |-> "done", op |-> "run", input |-> input, options |-> options,
                     providerCalls |-> 0,
                     flowCalls |-> << <<"run", input, OptionsContext(options)>> >>,
                     result |-> flow.run]])

\* callableFunction.stream(input, options): what flow.stream returns
DirectStream ==
    /\ app.pc = "registered" /\ app.call.pc = "idle"
    /\ \E input \in DirectInputs, options \in DirectOptions :
          SetApp([app EXCEPT !.call =
                    [pc |-> "done", op |-> "stream", input |-> input, options |-> options,
                     providerCalls |-> 0,
                     flowCalls |-> << <<"stream", input, OptionsContext(options)>> >>,
                     result |-> Returned(Str("{stream, output}"))]])

NextHandle == Register \/ DirectRun \/ DirectStream

SpecHandle == InitHandle /\ [][NextHandle]_vars

-----------------------------------------------------------------------------
(* The request decoder on its own *)

\* Most items of an array and members of an object in the bodies of SpecDecode
MaxItems == 2

Seqs(S, n) == UNION {[1..k -> S] : k \in 0..n}

Scalars == {Str("cats"), Str(""), JNull, Bool(TRUE), Bool(FALSE), Num(0), Num(7)}
Leaves == Scalars \cup {Obj(<<>>), Arr(<<>>)}
Keys == {"data", "subject"}

Arrays == {Arr(items) : items \in Seqs(Leaves, MaxItems)}
Objects ==
    {Obj(m) : m \in {x \in Seqs(Keys \X Leaves, MaxItems) :
                        \A a, b \in DOMAIN x : a # b => x[a][1] # x[b][1]}}

\* The values a body carries: leaves, arrays and objects of leaves (with and
\* without a data key), and the envelope { data: x } around each of these
Inner == Leaves \cup Arrays \cup Objects
Envelopes ==
    {Obj(<< <<"data", x>> >>) : x \in Inner}
    \cup {Obj(<< <<"subject", Str("cats")>>, <<"data", x>> >>) : x \in Arrays}
JsonValues == Inner \cup Envelopes

Compound(v) == v[1] \in {"obj", "arr"}

\* Texts that are no JSON: a text of a compound value cut short (its brackets
\* are left open), a JSON text followed by another token, blank text, and
\* texts with a misplaced comma or colon
CutShort ==
    UNION {{SubSeq(JSONStringify(v), 1, n) : n \in 1..(Len(JSONStringify(v)) - 1)} :
              v \in {x \in JsonValues : Compound(x)}}
Trailing ==
    {JSONStringify(v) \o <<t>> : v \in Inner, t \in {RBrace, Comma, TStr("x"), TNull}}
Misplaced ==
    {<<Space>>, <<Space, Space>>,
     <<LBrack, TStr("a"), Comma, RBrack>>,
     <<LBrace, TStr("data"), RBrace>>,
     <<LBrace, TStr("data"), Colon, RBrace>>,
     <<LBrace, TNull, Colon, TNull, RBrace>>,
     <<LBrace, Comma, RBrace>>,
     <<LBrack, TNull, TNull, RBrack>>,
     <<Colon>>, <<Comma>>, <<RBrace>>, <<RBrack>>}
MalformedTexts == CutShort \cup Trailing \cup Misplaced

\* A JSON text with blanks around it and after its first token
Padded(text) ==
    {text, <<Space>> \o text \o <<Space>>, <<text[1], Space>> \o Tail(text)}

BodyOf(readable, text) ==
    [Idle.request EXCEPT !.method = "POST", !.body = [readable |-> readable, text |-> text]]

\* of remembers the value a well-formed body was written from
DecodeInputs ==
    UNION {{[request |-> BodyOf(TRUE, text), of |-> Some("json", v)] :
                text \in Padded(JSONStringify(v))} : v \in JsonValues}
    \cup {[request |-> BodyOf(TRUE, text), of |-> Undef] : text \in MalformedTexts \cup {<<>>}}
    \cup {[request |-> BodyOf(FALSE, <<>>), of |-> Undef]}

InitDecode ==
    /\ opts \in {o \in OptsSet : o.cors = CorsUndefined /\ o.contextProvider = NoProvider
                                   /\ o.onError = NoOnError /\ ~o.debug}
    /\ flow \in {f \in Flows : f.run.ok}
    /\ inv = [i \in Ids |-> Idle]
    /\ \E x \in DecodeInputs :
          dec = [pc |-> "ready", request |-> x.request, of |-> x.of, result |-> Returned(JNull)]
    /\ auth = NoAuth
    /\ app = NotRegistered

\* await parseRequestBody(request)
ParseBody ==
    /\ dec.pc = "ready"
    /\ dec' = [dec EXCEPT !.pc = "done", !.result = parseRequestBody(dec.request)]
    /\ UNCHANGED <<opts, flow, inv, auth, app>>

NextDecode == ParseBody

SpecDecode == InitDecode /\ [][NextDecode]_vars

-----------------------------------------------------------------------------
(* The context providers on their own *)

\* Most providers given to allOf and to anyOf
MaxProviders == 2

Denied == UserFacingError("PERMISSION_DENIED", "Key revoked")

\* Token abc
TokenAbc == <<"a", "b", "c">>

LeafProviders ==
    {<<"allowAll">>,
     <<"requireApiKey", "X-API-Key", <<"literal", "secret">> >>,
     <<"requireApiKey", "x-api-key", <<"literal", "secret">> >>,
     <<"requireApiKey", "X-API-Key", <<"validator", <<"returns">> >> >>,
     <<"requireApiKey", "X-API-Key", <<"validator", <<"throws", Denied>> >> >>,
     <<"requireApiKey", "X-API-Key", <<"validator", <<"throws", NonError("revoked")>> >> >>,
     <<"requireApiKey", "X-API-Key", <<"validator", <<"returns", Bool(FALSE)>> >> >>,
     <<"requireApiKey", "X-API-Key", <<"validator", <<"returns", Str("reject")>> >> >>,
     <<"requireApiKey", "X-API-Key", <<"literal", "">> >>,
     <<"requireHeader", "X-API-Key", Some("string", "")>>,
     <<"requireBearerToken", <<"accepts", TokenAbc, [auth |-> [uid |-> "u1"]]>> >>,
     <<"requireBearerToken", <<"returns", EmptyMap>> >>,
     <<"requireBearerToken", <<"throws", NonError("bad token")>> >>,
     <<"requireHeader", "X-Request-ID", Undef>>,
     <<"requireHeader", "X-API-Key", Some("string", "secret")>>,
     <<"custom", ProviderThrown(NonError("denied"))>>,
     <<"custom", ProviderReturned(TenantContext)>>}

\* The providers the combinators are given
Members ==
    {<<"requireApiKey", "X-API-Key", <<"literal", "secret">> >>,
     <<"requireBearerToken", <<"accepts", TokenAbc, [auth |-> [uid |-> "u1"]]>> >>,
     <<"requireHeader", "X-Request-ID", Undef>>,
     <<"custom", ProviderThrown(NonError("denied"))>>,
     <<"custom", ProviderReturned(TenantContext)>>}

Nested ==
    {<<"allOf", << <<"anyOf", <<a, b>> >>, <<"requireHeader", "X-Request-ID", Undef>> >> >> :
        a, b \in Members}
    \cup {<<"anyOf", << <<"allOf", <<a, b>> >>, <<"custom", ProviderReturned(TenantContext)>> >> >> :
        a, b \in Members}

AuthProviders ==
    LeafProviders
    \cup {<<"allOf", ps>> : ps \in Seqs(Members, MaxProviders)}
    \cup {<<"anyOf", ps>> : ps \in Seqs(Members, MaxProviders)}
    \cup Nested

ApiKeyHeaders ==
    {EmptyMap, SetKey(EmptyMap, "X-API-Key", "")}
    \cup {SetKey(EmptyMap, n, v) : n \in {"X-API-Key", "x-api-key", "X-Api-Key"},
                                   v \in {"secret", "wrong"}}

AuthorizationValues ==
    {"Bearer abc", "bearer abc", "BEARER xyz", "Bearer  abc", "Basic abc",
     "Bearer", "Bearer ", "Bearerabc", "abc Bearer abc", ""}

AuthHeaderMaps ==
    {Spread(Spread(k, a), r) :
        k \in ApiKeyHeaders,
        a \in OptionalHeader("Authorization", AuthorizationValues),
        r \in OptionalHeader("X-Request-ID", {"r1", ""})}

InitAuth ==
    /\ opts \in {o \in OptsSet : o.cors = CorsUndefined /\ o.contextProvider = NoProvider
                                   /\ o.onError = NoOnError /\ ~o.debug}
    /\ flow \in {f \in Flows : f.run.ok}
    /\ inv = [i \in Ids |-> Idle]
    /\ dec = NoDecode
    /\ \E provider \in AuthProviders, headers \in AuthHeaderMaps :
          LET request == [Idle.request EXCEPT !.method = "POST", !.headers = headers] IN
          auth = [NoAuth EXCEPT !.pc = "call",
                                !.provider = provider,
                                !.request = request,
                                !.requestData = toRequestData(request, Obj(<<>>))]
    /\ app = NotRegistered

IsCombinator(provider) == provider[1] \in {"allOf", "anyOf"}

SetAuth(a) == auth' = a /\ UNCHANGED <<opts, flow, inv, dec, app>>

\* Leaving the loop settles the call
LoopPass(loop) ==
    IF loop.settled
    THEN [auth EXCEPT !.pc = "settled", !.loop = loop,
                      !.result = [loop.result EXCEPT !.trace = loop.trace]]
    ELSE [auth EXCEPT !.loop = loop]

\* await provider(requestData) for a provider that is no combinator
Invoke ==
    /\ auth.pc = "call"
    /\ ~IsCombinator(auth.provider)
    /\ SetAuth([auth EXCEPT !.pc = "settled",
                            !.result = CallProvider(auth.provider, auth.requestData)])

\* The call of the function that allOf or anyOf returned, up to its loop
EnterLoop ==
    /\ auth.pc = "call"
    /\ IsCombinator(auth.provider)
    /\ SetAuth([auth EXCEPT !.pc = "loop",
                            !.loop = [LoopBegin EXCEPT
                                         !.trace = << <<"provider", auth.provider>> >>]])

\* One pass of allOf's loop
AllOfPass ==
    /\ auth.pc = "loop"
    /\ auth.provider[1] = "allOf"
    /\ SetAuth(LoopPass(allOfIterate(auth.provider[2], auth.loop, auth.requestData)))

\* One pass of anyOf's loop
AnyOfPass ==
    /\ auth.pc = "loop"
    /\ auth.provider[1] = "anyOf"
    /\ SetAuth(LoopPass(anyOfIterate(auth.provider[2], auth.loop, auth.requestData)))

NextAuth == Invoke \/ EnterLoop \/ AllOfPass \/ AnyOfPass

SpecAuth == InitAuth /\ [][NextAuth]_vars

-----------------------------------------------------------------------------
(* Properties *)

Active == {i \in Ids : inv[i].pc # "idle"}

\* What the configured context provider does on the request of v
ProviderOutcome(v) == CallProvider(opts.contextProvider, toRequestData(v.request, v.input))

\* The provider was invoked for v and raised
ProviderRaised(v) ==
    /\ v.request.method # "OPTIONS"
    /\ opts.contextProvider # NoProvider
    /\ v.calls.provider > 0
    /\ ~ProviderOutcome(v).ok

\* {"error": {"status": ..., "message": ..., "details"?: ...}}
IsErrorShape(json) ==
    /\ IsObj(json) /\ Len(json[2]) = 1 /\ HasKey(json, "error")
    /\ LET e == Get(json, "error") IN
          /\ IsObj(e) /\ HasKey(e, "status") /\ HasKey(e, "message")
          /\ \A j \in 1..Len(e[2]) : e[2][j][1] \in {"status", "message", "details"}

IsErrorResponse(response) ==
    /\ response.body[1] = "json"
    /\ IsErrorShape(response.body[2])

\* C1: for a non-OPTIONS request whose context provider raises, in both
\* handler modes, flow.run and flow.stream are never invoked, no stream is
\* opened, the failure goes to the handler's catch, and the only response the
\* request gets is the error response the normalizer builds for that failure.
C1_ProviderFailureShortCircuits ==
    \A i \in Active :
        LET v == inv[i] IN
        ProviderRaised(v) =>
            /\ v.calls.run = 0 /\ v.calls.stream = 0 /\ v.flowCalls = <<>>
            /\ v.streamState = "none" /\ v.sse = <<>>
            /\ v.pc \in {"catch", "done"}
            /\ v.caught = ProviderOutcome(v).err
            /\ v.pc = "done" => v.calls.normalize = 1
            /\ v.handler = "returned" =>
                  /\ v.pc = "done"
                  /\ v.response = buildErrorResponse(opts, v.caught, v.corsHeaders).response
                  /\ IsErrorResponse(v.response)

C1_Witness ==
    \E i \in Active :
        /\ ProviderRaised(inv[i])
        /\ inv[i].streaming /\ clientWantsStreaming(inv[i].request)
        /\ inv[i].handler = "returned"
        /\ inv[i].response.status = 401

\* C2: every OPTIONS request is answered 204 with the CORS header map and no
\* body, in both handler modes and under every context provider; the body is
\* not read, the provider is not invoked and the flow is not executed.
C2_PreflightShortCircuit ==
    \A i \in Active :
        LET v == inv[i] IN
        v.request.method = "OPTIONS" =>
            /\ v.pc \in {"start", "done"}
            /\ v.calls = NoCalls /\ v.flowCalls = <<>> /\ v.input = JNull
            /\ v.pc = "done" =>
                  /\ v.handler = "returned"
                  /\ v.response.status = 204
                  /\ v.response.headers = buildCorsHeaders(opts.cors, getRequestOrigin(v.request))
                  /\ v.response.body = NoBody

C2_Witness ==
    \E i \in Active :
        /\ inv[i].request.method = "OPTIONS" /\ inv[i].pc = "done"
        /\ inv[i].streaming
        /\ opts.contextProvider[1] = "requireApiKey"
        /\ "X-API-Key" \notin DOMAIN inv[i].request.headers
        /\ inv[i].request.body.text = BodyMalformed
        /\ inv[i].response.status = 204

\* The SSE records as they appear on the wire
WireMessage(chunk) ==
    << <<"p", "data: ">>, LBrace, TStr("message"), Colon >> \o JSONStringify(chunk)
        \o << RBrace, <<"p", "\n\n">> >>

WireResult(result) ==
    << <<"p", "data: ">>, LBrace, TStr("result"), Colon >> \o JSONStringify(result)
        \o << RBrace, <<"p", "\n\n">> >>

WireMessages(chunks) == [j \in 1..Len(chunks) |-> WireMessage(chunks[j])]

\* The bytes of the response stream: its records, concatenated
RECURSIVE Concat(_, _)
Concat(records, j) ==
    IF j > Len(records) THEN <<>> ELSE records[j] \o Concat(records, j + 1)

InSseBranch(v) == v.streamState # "none"

\* C3: in the SSE branch, while nothing has failed, the response body is the
\* message records of the chunks the flow has yielded, in the order yielded;
\* once the output has resolved to R it is these followed by the one result
\* record of R, and the stream is closed exactly then and only once.
C3_SseBodyIsChunksThenResult ==
    \A i \in Active :
        LET v == inv[i] IN
        (InSseBranch(v) /\ v.caught = NoError) =>
            /\ v.streaming /\ clientWantsStreaming(v.request)
            /\ v.sse = WireMessages(v.flowChunks)
                         \o (IF IsUndef(v.flowOutput) THEN <<>>
                             ELSE <<WireResult(v.flowOutput[2])>>)
            /\ ~IsUndef(v.flowOutput) => v.flowStreamEnded
            /\ (v.streamState = "closed") = ~IsUndef(v.flowOutput)
            /\ v.closes = (IF v.streamState = "closed" THEN 1 ELSE 0)
            /\ (v.pc = "done") = (v.streamState = "closed")

\* data: {"message":"a"}\n\ndata: {"message":"b"}\n\ndata: {"result":{"joke":"a b"}}\n\n
C3_Witness ==
    \E i \in Active :
        /\ inv[i].flowChunks = <<Str("a"), Str("b")>>
        /\ inv[i].flowOutput = Some("value", Joke)
        /\ inv[i].streamState = "closed"
        /\ Concat(inv[i].sse, 1) =
              << <<"p", "data: ">>, LBrace, TStr("message"), Colon, TStr("a"), RBrace,
                 <<"p", "\n\n">>,
                 <<"p", "data: ">>, LBrace, TStr("message"), Colon, TStr("b"), RBrace,
                 <<"p", "\n\n">>,
                 <<"p", "data: ">>, LBrace, TStr("result"), Colon,
                 LBrace, TStr("joke"), Colon, TStr("a b"), RBrace, RBrace,
                 <<"p", "\n\n">> >>

\* The JSON payload of an SSE record
RecordPayload(record) == JSONParse(SubSeq(record, 2, Len(record) - 1))

IsSseRecord(record) ==
    /\ Len(record) >= 3
    /\ record[1] = <<"p", "data: ">>
    /\ record[Len(record)] = <<"p", "\n\n">>
    /\ RecordPayload(record).ok

\* C4: when the chunk sequence or the output fails in the SSE branch, the
\* message records already written stay, exactly one more record follows, it
\* carries an {error:{status,message}} payload, the stream is closed, the
\* status stays 200 and the handler has returned, not failed.
C4_SseFailureInBand ==
    \A i \in Active :
        LET v == inv[i] IN
        (InSseBranch(v) /\ v.caught # NoError) =>
            /\ v.pc = "done"
            /\ Len(v.sse) = Len(v.flowChunks) + 1
            /\ SubSeq(v.sse, 1, Len(v.flowChunks)) = WireMessages(v.flowChunks)
            /\ IsSseRecord(v.sse[Len(v.sse)])
            /\ IsErrorShape(RecordPayload(v.sse[Len(v.sse)]).val)
            /\ v.streamState = "closed" /\ v.closes = 1
            /\ v.response.status = 200 /\ v.response.body = StreamBody
            /\ v.handler = "returned" /\ v.rejection = NoError

C4_Witness ==
    \E i \in Active :
        /\ InSseBranch(inv[i]) /\ inv[i].caught = PlainError("boom")
        /\ inv[i].flowChunks = <<Str("a")>>
        /\ ~inv[i].flowStreamEnded
        /\ inv[i].sse =
              << WireMessage(Str("a")),
                 << <<"p", "data: ">>, LBrace, TStr("error"), Colon, LBrace,
                    TStr("status"), Colon, TStr("INTERNAL"), Comma,
                    TStr("message"), Colon, TStr("Internal Error"), RBrace, RBrace,
                    <<"p", "\n\n">> >> >>

C4_WitnessOutput ==
    \E i \in Active :
        /\ InSseBranch(inv[i]) /\ inv[i].caught # NoError
        /\ inv[i].flowStreamEnded /\ inv[i].flowOutput[1] = "error"
        /\ Len(inv[i].sse) = 3


\* A failure was raised while v was handled and its handling is over
FailureHandled(v) == v.pc = "done" /\ v.caught # NoError

\* C5: every failure of context resolution or flow execution passes through
\* the Error Normalizer exactly once: through the override hook when one is
\* configured, through the kind-to-status mapping otherwise.
C5_EveryFailureNormalizedOnce ==
    \A i \in Active :
        LET v == inv[i] IN
        FailureHandled(v) =>
            IF opts.onError # NoOnError
            THEN v.calls.onError = 1 /\ v.calls.callableJSON = 0
            ELSE v.calls.normalize + v.calls.callableJSON = 1 /\ v.calls.onError = 0

\* C6: whatever fails while a request is handled, the handler completes with
\* a response whose body has the shape {error:{status, message, details?}},
\* or with an SSE record of that shape; the handler invocation never fails.
C6_HandlerNeverFails ==
    \A i \in Active :
        LET v == inv[i] IN
        /\ v.handler # "rejected"
        /\ FailureHandled(v) =>
              IF InSseBranch(v)
              THEN /\ v.sse # <<>>
                   /\ IsSseRecord(v.sse[Len(v.sse)])
                   /\ IsErrorShape(RecordPayload(v.sse[Len(v.sse)]).val)
              ELSE v.handler = "returned" /\ IsErrorResponse(v.response)

\* The header is absent from the request, whatever the case of its name
LacksHeader(request, name) ==
    \A n \in DOMAIN request.headers : ToLowerCase(n) # ToLowerCase(name)

C8_OverrideDecidesErrorResponse ==
    \A i \in Active :
        LET v == inv[i]
            expectedArg == IF v.caught.cls \in {"UserFacingError", "Error"} THEN v.caught
                           ELSE [cls |-> "Error", status |-> "", message |-> v.caught.message,
                                 hasDetail |-> FALSE, detail |-> NoDetail]
            custom == OnErrorResult(opts.onError, expectedArg)
        IN
        (opts.onError # NoOnError /\ v.calls.normalize > 0) =>
            /\ v.calls.normalize = 1 /\ v.calls.onError = 1
            /\ v.onErrorArg = Some("error", expectedArg)
            /\ v.handler = "returned" =>
                  /\ custom.ok
                  /\ v.response.status = custom.statusCode
                  /\ v.response.headers = v.corsHeaders
                  /\ v.response.body =
                        JsonBody(Obj(<< <<"error",
                            Obj(<< <<"status", Str("INTERNAL")>>,
                                   <<"message", Str(custom.message[2])>> >>)>> >>))

C8_Witness ==
    \E i \in Active :
        /\ opts.onError = <<"echo">>
        /\ inv[i].caught = NonError("denied")
        /\ inv[i].handler = "returned"
        /\ inv[i].onErrorArg = Some("error", PlainError("denied"))
        /\ inv[i].response.status = 503
        /\ Get(Get(inv[i].response.body[2], "error"), "message") = Str("denied")

C8_WitnessKinds ==
    \E i \in Active :
        /\ opts.onError = <<"echo">>
        /\ inv[i].caught.cls = "UserFacingError"
        /\ inv[i].caught.status = "UNAUTHENTICATED"
        /\ inv[i].handler = "returned"
        /\ inv[i].response.status = 503
        /\ Get(Get(inv[i].response.body[2], "error"), "status") = Str("INTERNAL")

\* What a client sees of an invocation: how the handler ended and with what
Outcome(v) == <<v.handler, v.response, v.rejection>>

\* C9 (SpecPair: the same request given to the buffered handler, 1, and to
\* the streaming-capable handler, 2, of the same flow and options): for a
\* request whose Accept header does not contain text/event-stream, handler 2
\* never calls flow.stream and never opens a stream, and it ends exactly as
\* handler 1 does, with the same response, after the same calls of the
\* provider and of flow.run with the same input; the response to a request
\* that is no preflight is 200 with {result} or the normalized error response.
C9_FallbackEqualsBuffered ==
    LET b == inv[1]
        s == inv[2] IN
    (s.pc # "idle" /\ b.pc # "idle" /\ ~clientWantsStreaming(s.request)) =>
        /\ s.calls.stream = 0 /\ s.streamState = "none" /\ s.sse = <<>>
        /\ (s.pc = "done" /\ b.pc = "done") =>
              /\ Outcome(s) = Outcome(b)
              /\ s.calls.run = b.calls.run
              /\ s.calls.provider = b.calls.provider
              /\ s.calls.normalize = b.calls.normalize
              /\ Len(s.flowCalls) = Len(b.flowCalls)
              /\ \A j \in 1..Len(s.flowCalls) :
                    s.flowCalls[j][1] = "run" /\ s.flowCalls[j][2] = b.flowCalls[j][2]
              /\ (s.handler = "returned" /\ s.request.method # "OPTIONS") =>
                    IF s.calls.normalize = 0
                    THEN /\ s.calls.run = 1 /\ flow.run.ok
                         /\ s.response.status = 200
                         /\ s.response.body = JsonBody(Obj(<< <<"result", flow.run.val>> >>))
                    ELSE s.response = buildErrorResponse(opts, s.caught, s.corsHeaders).response

C9_Witness ==
    /\ inv[1].pc = "done" /\ inv[2].pc = "done"
    /\ inv[2].streaming /\ ~inv[1].streaming
    /\ inv[2].request.method = "POST"
    /\ HeadersGet(inv[2].request, "accept") = Some("string", "application/json")
    /\ inv[2].response.status = 200
    /\ inv[2].response.body = JsonBody(Obj(<< <<"result", Joke>> >>))
    /\ inv[2].calls.run = 1

\* C10: in the non-streaming handler with no context provider, a POST whose
\* body is {"data": X} calls flow.run exactly once, with input X and the
\* platform-derived context, and the response to the flow's output R is
\* status 200, body {"result": R}, with the CORS header map.
C10_WrappedPostRunsFlowOnce ==
    \A i \in Active :
        LET v == inv[i]
            parsed == JSONParse(v.request.body.text)
        IN
        (/\ ~v.streaming /\ opts.contextProvider = NoProvider
         /\ v.request.method = "POST"
         /\ parsed.ok /\ HasKey(parsed.val, "data"))
        => /\ v.calls.run <= 1 /\ v.calls.stream = 0 /\ v.calls.provider = 0
           /\ v.pc = "done" => v.calls.run = 1
           /\ v.calls.run = 1 =>
                 v.flowCalls = << <<"run", Get(parsed.val, "data"),
                                    [azureFunctions |->
                                       [request |-> [url |-> v.request.url.href,
                                                     headers |-> normalizeHeaders(v.request),
                                                     query |-> getQueryParams(v.request),
                                                     params |-> v.request.params],
                                        context |-> v.azureContext]]>> >>
           /\ (v.pc = "done" /\ flow.run.ok) =>
                 /\ v.handler = "returned"
                 /\ v.response =
                       [status |-> 200,
                        headers |-> buildCorsHeaders(opts.cors, getRequestOrigin(v.request)),
                        body |-> JsonBody(Obj(<< <<"result", flow.run.val>> >>))]

\* POST {"data":{"subject":"cats"}} to jokeFlow
C10_Witness ==
    \E i \in Active :
        /\ ~inv[i].streaming /\ opts.contextProvider = NoProvider
        /\ inv[i].request.method = "POST"
        /\ inv[i].request.body.text = BodyWrapped
        /\ flowName = "jokeFlow"
        /\ inv[i].pc = "done"
        /\ inv[i].calls.run = 1
        /\ inv[i].flowCalls[1][2] = Obj(<< <<"subject", Str("cats")>> >>)
        /\ inv[i].response.status = 200
        /\ inv[i].response.body = JsonBody(Obj(<< <<"result", Joke>> >>))


\* C11 (SpecDecode): the decoder returns X for every body {"data": X}, the
\* parsed value itself for every JSON body that is no object with a data key
\* (arrays, scalars and null among them), and {} without failing for an empty
\* body and for a body that cannot be read.
C11_DecodeUnwrapsEnvelope ==
    dec.pc = "done" =>
        /\ (~dec.request.body.readable \/ dec.request.body.text = <<>>)
              => dec.result = Returned(Obj(<<>>))
        /\ ~IsUndef(dec.of) =>
              LET v == dec.of[2] IN
              /\ \A x \in Inner :
                    v = Obj(<< <<"data", x>> >>) => dec.result = Returned(x)
              /\ \A x \in Arrays :
                    v = Obj(<< <<"subject", Str("cats")>>, <<"data", x>> >>)
                        => dec.result = Returned(x)
              /\ (IsObj(v) /\ \E j \in DOMAIN v[2] : v[2][j][1] = "data")
                    => \E j \in DOMAIN v[2] :
                          v[2][j][1] = "data" /\ dec.result = Returned(v[2][j][2])
              /\ (~IsObj(v) \/ \A j \in DOMAIN v[2] : v[2][j][1] # "data")
                    => dec.result = Returned(v)

\* { "data":["cats",null]} decodes to ["cats",null]
C11_Witness ==
    /\ dec.pc = "done"
    /\ dec.request.body.text =
          <<LBrace, Space, TStr("data"), Colon, LBrack, TStr("cats"), Comma, TNull,
            RBrack, RBrace>>
    /\ dec.result = Returned(Arr(<<Str("cats"), JNull>>))

\* A bare array, and null, are passed through as they are
C11_WitnessBare ==
    /\ dec.pc = "done"
    /\ dec.request.body.text \in {<<LBrack, TNum(7), RBrack>>, <<TNull>>}
    /\ dec.result.ok
    /\ dec.result.val \in {Arr(<<Num(7)>>), JNull}

InvalidJson == UserFacingError("INVALID_ARGUMENT", "Invalid JSON in request body")

\* C12 (SpecDecode): for every non-empty body that is not well-formed JSON the
\* decoder fails with INVALID_ARGUMENT and the message "Invalid JSON in request
\* body"; the decoder fails in no other way and on no other body.
C12_MalformedIsInvalidArgument ==
    dec.pc = "done" =>
        /\ (dec.request.body.readable /\ dec.request.body.text \in MalformedTexts)
              => dec.result = Thrown(InvalidJson)
        /\ ~dec.result.ok =>
              /\ dec.result.err.cls = "UserFacingError"
              /\ dec.result.err.status = "INVALID_ARGUMENT"
              /\ dec.result.err.message = "Invalid JSON in request body"
              /\ dec.request.body.readable
              /\ dec.request.body.text # <<>>
              /\ IsUndef(dec.of)

\* {"data": cut short
C12_Witness ==
    /\ dec.pc = "done"
    /\ dec.request.body.text = <<LBrace, TStr("data"), Colon>>
    /\ ~dec.result.ok
    /\ dec.result.err.status = "INVALID_ARGUMENT"


\* C13: the context the flow is called with is the platform-derived fields
\* overlaid by the fields the context provider returned: it has the keys of
\* both, the provider's value on every key the provider returned (the keys
\* present in both among them) and the platform's value on the others; with
\* no provider configured it is the platform-derived fields alone.
C13_ProviderFieldsOverlayPlatform ==
    \A i \in Active :
        LET v == inv[i]
            platform == buildAzureFunctionsContext(v.request, v.azureContext)
            provided == ProviderOutcome(v)
        IN
        \A n \in DOMAIN v.flowCalls :
            LET context == v.flowCalls[n][3] IN
            IF opts.contextProvider = NoProvider
            THEN context = platform
            ELSE /\ provided.ok
                 /\ DOMAIN context = (DOMAIN platform) \cup (DOMAIN provided.ctx)
                 /\ \A k \in DOMAIN provided.ctx : context[k] = provided.ctx[k]
                 /\ \A k \in (DOMAIN platform) \ (DOMAIN provided.ctx) :
                       context[k] = platform[k]

\* The provider returned an azureFunctions field of its own: the flow sees
\* the provider's, and the provider's auth field beside it.
C13_Witness ==
    \E i \in Active :
        /\ opts.contextProvider = <<"custom", ProviderReturned(TenantContext)>>
        /\ inv[i].calls.provider = 1
        /\ Len(inv[i].flowCalls) = 1
        /\ inv[i].flowCalls[1][3].azureFunctions.context.functionName = "tenant"
        /\ inv[i].flowCalls[1][3].auth = [uid |-> "u1"]
        /\ buildAzureFunctionsContext(inv[i].request, inv[i].azureContext)
              .azureFunctions.context.functionName = "jokeFlow"

\* No collision: the platform's azureFunctions and the provider's auth
C13_WitnessDisjoint ==
    \E i \in Active :
        /\ opts.contextProvider[1] = "requireApiKey"
        /\ Len(inv[i].flowCalls) = 1
        /\ inv[i].flowCalls[1][3].azureFunctions.context.functionName = "jokeFlow"
        /\ inv[i].flowCalls[1][3].auth = [apiKey |-> "secret"]


\* What the j-th provider given to the combinator does on the request
MemberOutcome(j) == CallProvider(auth.provider[2][j], auth.requestData)

\* What the calls of the first m providers, one after the other, invoke
MembersTrace(m) == Concat([k \in 1..m |-> MemberOutcome(k).trace], 1)

InLoopOf(combinator) ==
    auth.provider[1] = combinator /\ auth.pc \in {"loop", "settled"}

SettledOf(combinator) == auth.provider[1] = combinator /\ auth.pc = "settled"

CombinatorCall == << <<"provider", auth.provider>> >>

\* C14 (SpecAuth): anyOf(p1..pn) invokes the providers one at a time in the
\* listed order: while it runs, the providers invoked are a prefix of the list
\* and all but the one in progress have failed.  The first provider that
\* succeeds ends the run: its context is returned as it is and no later
\* provider is invoked.  If every provider fails, the failure propagated is
\* the last provider's, not an earlier one's (a raised value that is no Error
\* object is propagated as an Error of the same text).
C14_AnyOfFirstSuccessElseLastFailure ==
    InLoopOf("anyOf") =>
        LET n == Len(auth.provider[2])
            succeeds == {k \in 1..n : MemberOutcome(k).ok}
        IN
        /\ auth.pc = "loop" =>
              /\ auth.loop.j \in 1..(n + 1)
              /\ auth.loop.trace = CombinatorCall \o MembersTrace(auth.loop.j - 1)
              /\ \A k \in 1..(auth.loop.j - 1) : k \notin succeeds
        /\ (auth.pc = "settled" /\ succeeds # {}) =>
              LET first == CHOOSE k \in succeeds : \A x \in succeeds : k <= x IN
              /\ auth.result.ok
              /\ auth.result.ctx = MemberOutcome(first).ctx
              /\ auth.result.trace = CombinatorCall \o MembersTrace(first)
        /\ (auth.pc = "settled" /\ succeeds = {} /\ n > 0) =>
              LET raised == MemberOutcome(n).err IN
              /\ ~auth.result.ok
              /\ auth.result.trace = CombinatorCall \o MembersTrace(n)
              /\ auth.result.err.message = raised.message
              /\ auth.result.err.status = raised.status
              /\ auth.result.err.detail = raised.detail
              /\ IF InstanceOfError(raised) THEN auth.result.err = raised
                 ELSE auth.result.err.cls = "Error"

\* anyOf(requireApiKey, requireBearerToken), no key, a token that is refused:
\* the failure is the second provider's PERMISSION_DENIED, not the first's
\* UNAUTHENTICATED
C14_Witness ==
    /\ SettledOf("anyOf")
    /\ Len(auth.provider[2]) = 2
    /\ ~MemberOutcome(1).ok /\ MemberOutcome(1).err.status = "UNAUTHENTICATED"
    /\ ~MemberOutcome(2).ok /\ MemberOutcome(2).err.status = "PERMISSION_DENIED"
    /\ auth.result.err = UserFacingError("PERMISSION_DENIED", "Invalid token")

\* The first provider fails, the second succeeds: its context, as it is
C14_WitnessSuccess ==
    /\ SettledOf("anyOf")
    /\ Len(auth.provider[2]) = 2
    /\ ~MemberOutcome(1).ok
    /\ auth.result.ok /\ auth.result.ctx = [auth |-> [uid |-> "u1"]]

\* The first provider succeeds: the second, which would fail, is not invoked
C14_WitnessShortCircuit ==
    /\ SettledOf("anyOf")
    /\ Len(auth.provider[2]) = 2
    /\ MemberOutcome(1).ok /\ ~MemberOutcome(2).ok
    /\ auth.result.ok
    /\ auth.result.trace = CombinatorCall \o MemberOutcome(1).trace

\* The providers among the first m that returned the key
Returning(key, m) == {k \in 1..m : key \in DOMAIN MemberOutcome(k).ctx}

\* The left-to-right merge of the contexts of the first m providers: every key
\* any of them returned, with the value of the last that returned it
IsMergeOf(context, m) ==
    /\ DOMAIN context = UNION {DOMAIN MemberOutcome(k).ctx : k \in 1..m}
    /\ \A key \in DOMAIN context :
          LET last == CHOOSE k \in Returning(key, m) : \A x \in Returning(key, m) : x <= k
          IN context[key] = MemberOutcome(last).ctx[key]

\* C15 (SpecAuth): allOf(p1..pn) invokes the providers one at a time in the
\* listed order, each after the previous one has resolved: while it runs, the
\* providers invoked are a prefix of the list, all resolved so far, and the
\* context in hand is the merge of theirs.  The first failure is propagated as
\* it is and no later provider is invoked; on success the result is the
\* left-to-right merge of all contexts, the later provider's value on every
\* colliding key.
C15_AllOfMergesOrFirstFailure ==
    InLoopOf("allOf") =>
        LET n == Len(auth.provider[2])
            fails == {k \in 1..n : ~MemberOutcome(k).ok}
        IN
        /\ auth.pc = "loop" =>
              /\ auth.loop.j \in 1..(n + 1)
              /\ auth.loop.trace = CombinatorCall \o MembersTrace(auth.loop.j - 1)
              /\ \A k \in 1..(auth.loop.j - 1) : k \notin fails
              /\ IsMergeOf(auth.loop.mergedContext, auth.loop.j - 1)
        /\ (auth.pc = "settled" /\ fails # {}) =>
              LET first == CHOOSE k \in fails : \A x \in fails : k <= x IN
              /\ ~auth.result.ok
              /\ auth.result.err = MemberOutcome(first).err
              /\ auth.result.trace = CombinatorCall \o MembersTrace(first)
        /\ (auth.pc = "settled" /\ fails = {}) =>
              /\ auth.result.ok
              /\ auth.result.trace = CombinatorCall \o MembersTrace(n)
              /\ IsMergeOf(auth.result.ctx, n)

\* allOf(requireApiKey, requireBearerToken): both return an auth field, the
\* result has the second's
C15_Witness ==
    /\ SettledOf("allOf")
    /\ Len(auth.provider[2]) = 2
    /\ MemberOutcome(1).ok /\ MemberOutcome(1).ctx = [auth |-> [apiKey |-> "secret"]]
    /\ MemberOutcome(2).ok /\ MemberOutcome(2).ctx = [auth |-> [uid |-> "u1"]]
    /\ auth.result.ok /\ auth.result.ctx = [auth |-> [uid |-> "u1"]]

\* The first provider fails: the second, which would succeed, is not invoked
C15_WitnessShortCircuit ==
    /\ SettledOf("allOf")
    /\ Len(auth.provider[2]) = 2
    /\ ~MemberOutcome(1).ok /\ MemberOutcome(2).ok
    /\ auth.result.err = MemberOutcome(1).err
    /\ auth.result.trace = CombinatorCall \o MemberOutcome(1).trace


\* The call of a provider built by the function named has settled
SettledCallOf(name) == auth.provider[1] = name /\ auth.pc = "settled"

\* The request's header of that name, as Headers.get gives it
RequestHeader(name) == HeadersGet(auth.request, name)

FailsWith(status) ==
    /\ ~auth.result.ok
    /\ auth.result.err.cls = "UserFacingError"
    /\ auth.result.err.status = status

\* C16, as stated (SpecAuth): requireApiKey(headerName, literal) resolves to
\* {auth:{apiKey: <header value>}} when the header equals the literal, fails
\* with PERMISSION_DENIED when the header is present with another value, and
\* fails with UNAUTHENTICATED when the header is absent; the header is found
\* whatever the case of its name.
C16_ApiKeyLiteral ==
    (SettledCallOf("requireApiKey") /\ auth.provider[3][1] = "literal") =>
        LET header == RequestHeader(auth.provider[2])
            literal == auth.provider[3][2]
        IN
        /\ (~IsUndef(header) /\ header[2] = literal)
              => auth.result.ok /\ auth.result.ctx = [auth |-> [apiKey |-> header[2]]]
        /\ (~IsUndef(header) /\ header[2] # literal) => FailsWith("PERMISSION_DENIED")
        /\ IsUndef(header) => FailsWith("UNAUTHENTICATED")

\* C16, amended (SpecAuth): requireApiKey(headerName, literal) resolves to
\* {auth:{apiKey: <header value>}} when the header's value is not empty and
\* equals the literal, fails with PERMISSION_DENIED when the header is present
\* with another value that is not empty, and fails with UNAUTHENTICATED when the header is absent or
\* its value is empty; the header is found whatever the case of its name.
C16_ApiKeyLiteralEmptyIsMissing ==
    (SettledCallOf("requireApiKey") /\ auth.provider[3][1] = "literal") =>
        LET header == RequestHeader(auth.provider[2])
            literal == auth.provider[3][2]
        IN
        /\ (~IsUndef(header) /\ header[2] = literal /\ header[2] # "")
              => auth.result.ok /\ auth.result.ctx = [auth |-> [apiKey |-> header[2]]]
        /\ (~IsUndef(header) /\ header[2] # literal /\ header[2] # "")
              => /\ FailsWith("PERMISSION_DENIED")
                 /\ auth.result.err.message = "Invalid API key"
        /\ (IsUndef(header) \/ header[2] = "")
              => /\ FailsWith("UNAUTHENTICATED")
                 /\ auth.result.err.message = MissingHeaderMessage(auth.provider[2])

\* X-API-Key: with no value
C16_Witness ==
    /\ SettledCallOf("requireApiKey")
    /\ auth.provider = <<"requireApiKey", "X-API-Key", <<"literal", "secret">> >>
    /\ RequestHeader("X-API-Key") = Some("string", "")
    /\ FailsWith("UNAUTHENTICATED")
    /\ auth.result.err.message = "Missing required header: X-API-Key"

\* The header sent as x-api-key, the provider built for X-API-Key
C16_WitnessCase ==
    /\ SettledCallOf("requireApiKey")
    /\ auth.provider = <<"requireApiKey", "X-API-Key", <<"literal", "secret">> >>
    /\ "x-api-key" \in DOMAIN auth.request.headers
    /\ auth.result.ok /\ auth.result.ctx = [auth |-> [apiKey |-> "secret"]]

\* The calls of the token validator, in order
ValidatorCalls == SelectSeq(auth.result.trace, LAMBDA ev : ev[1] = "validateToken")

\* value has the form Bearer <token>: the letters of the scheme in either
\* case, blanks, and then the token, which is not empty
HasBearerForm(value, token) ==
    LET chars == Chars(value)
        n == Len(chars) IN
    /\ n >= 8
    /\ chars[1] \in {"B", "b"} /\ chars[2] \in {"E", "e"} /\ chars[3] \in {"A", "a"}
    /\ chars[4] \in {"R", "r"} /\ chars[5] \in {"E", "e"} /\ chars[6] \in {"R", "r"}
    /\ \E k \in 7..(n - 1) :
          /\ \A i \in 7..k : chars[i] \in {" ", "\t"}
          /\ chars[k + 1] \notin {" ", "\t"}
          /\ token = SubSeq(chars, k + 1, n)

Tokens == {TokenAbc, <<"x", "y", "z">>}

\* C17 (SpecAuth): requireBearerToken(validator) fails with UNAUTHENTICATED,
\* the validator not invoked, when the Authorization header is absent or has
\* not the form Bearer <token>; otherwise it invokes the validator exactly
\* once, with the token, returns the validator's context unchanged, and lets
\* the validator's failure through unchanged.
C17_BearerTokenValidated ==
    SettledCallOf("requireBearerToken") =>
        LET header == RequestHeader("Authorization")
            formed == ~IsUndef(header) /\ \E t \in Tokens : HasBearerForm(header[2], t)
        IN
        /\ ~formed => FailsWith("UNAUTHENTICATED") /\ ValidatorCalls = <<>>
        /\ formed =>
              LET token == CHOOSE t \in Tokens : HasBearerForm(header[2], t)
                  validated == ValidateToken(auth.provider[2], token) IN
              /\ ValidatorCalls = << <<"validateToken", token>> >>
              /\ auth.result.ok = validated.ok
              /\ auth.result.ctx = validated.ctx
              /\ auth.result.err = validated.err

\* Authorization: bearer abc
C17_Witness ==
    /\ SettledCallOf("requireBearerToken")
    /\ auth.provider[2][1] = "accepts"
    /\ RequestHeader("Authorization") = Some("string", "bearer abc")
    /\ ValidatorCalls = << <<"validateToken", <<"a", "b", "c">> >> >>
    /\ auth.result.ok /\ auth.result.ctx = [auth |-> [uid |-> "u1"]]

\* Authorization: Basic abc
C17_WitnessMalformed ==
    /\ SettledCallOf("requireBearerToken")
    /\ RequestHeader("Authorization") = Some("string", "Basic abc")
    /\ FailsWith("UNAUTHENTICATED")
    /\ ValidatorCalls = <<>>

\* The validator raises a value that is no Error object: it comes out as it is
C17_WitnessValidatorFails ==
    /\ SettledCallOf("requireBearerToken")
    /\ RequestHeader("Authorization") = Some("string", "Bearer  abc")
    /\ Len(ValidatorCalls) = 1
    /\ auth.result.err = NonError("bad token")

\* C18, as stated (SpecAuth): requireHeader(name, expectedValue?) fails with
\* UNAUTHENTICATED if the header is absent, fails with PERMISSION_DENIED if an
\* expected value is given and the header's value differs from it, and
\* otherwise resolves to the empty context.
C18_RequireHeader ==
    SettledCallOf("requireHeader") =>
        LET header == RequestHeader(auth.provider[2])
            expectedValue == auth.provider[3]
        IN
        IF IsUndef(header) THEN FailsWith("UNAUTHENTICATED")
        ELSE IF ~IsUndef(expectedValue) /\ header[2] # expectedValue[2]
        THEN FailsWith("PERMISSION_DENIED")
        ELSE auth.result.ok /\ auth.result.ctx = EmptyMap

\* C18, amended (SpecAuth): requireHeader(name, expectedValue?) fails with
\* UNAUTHENTICATED if the header is absent or its value is empty, fails with
\* PERMISSION_DENIED if an expected value is given and the header's value, not
\* empty, differs from it, and otherwise resolves to the empty context.
C18_RequireHeaderEmptyIsMissing ==
    SettledCallOf("requireHeader") =>
        LET header == RequestHeader(auth.provider[2])
            expectedValue == auth.provider[3]
        IN
        IF IsUndef(header) \/ header[2] = ""
        THEN /\ FailsWith("UNAUTHENTICATED")
             /\ auth.result.err.message = MissingHeaderMessage(auth.provider[2])
        ELSE IF ~IsUndef(expectedValue) /\ header[2] # expectedValue[2]
        THEN /\ FailsWith("PERMISSION_DENIED")
             /\ auth.result.err.message = InvalidHeaderMessage(auth.provider[2])
        ELSE auth.result.ok /\ auth.result.ctx = EmptyMap

\* X-Request-ID: with no value, and no expected value given
C18_Witness ==
    /\ SettledCallOf("requireHeader")
    /\ auth.provider = <<"requireHeader", "X-Request-ID", Undef>>
    /\ RequestHeader("X-Request-ID") = Some("string", "")
    /\ FailsWith("UNAUTHENTICATED")

\* The expected value given and another one sent
C18_WitnessDenied ==
    /\ SettledCallOf("requireHeader")
    /\ auth.provider[3] = Some("string", "secret")
    /\ RequestHeader("X-API-Key") = Some("string", "wrong")
    /\ FailsWith("PERMISSION_DENIED")


\* The origins of the allow-list configured, none when the origin option is
\* no list
AllowedOrigins ==
    IF opts.cors[1] = "options" /\ opts.cors[2].origin[1] = "list"
    THEN {opts.cors[2].origin[2][j] : j \in DOMAIN opts.cors[2].origin[2]}
    ELSE {}

ListConfigured == opts.cors[1] = "options" /\ opts.cors[2].origin[1] = "list"

\* The request names an origin and the origin is on the list
OriginAllowed(request) ==
    /\ "origin" \in DOMAIN request.headers
    /\ request.headers["origin"] \in AllowedOrigins

\* There is nothing in v's request that fails: the body decodes and the
\* provider, if any, lets the request through
NothingFails(v) ==
    /\ parseRequestBody(v.request).ok
    /\ opts.contextProvider # NoProvider =>
          CallProvider(opts.contextProvider,
                       toRequestData(v.request, parseRequestBody(v.request).val)).ok

\* C19: with an origin allow-list configured, the header map of the response
\* has Access-Control-Allow-Origin, equal to the request origin, exactly when
\* the request origin is on the list, and has no such header otherwise (no
\* origin in the request, or one that is not on the list); in that case the
\* request is processed all the same: the preflight is answered 204, and the
\* flow is executed whenever decoding and the provider let the request through.
C19_AllowListSharesListedOriginsOnly ==
    \A i \in Active :
        LET v == inv[i] IN
        (ListConfigured /\ v.handler = "returned") =>
            /\ OriginAllowed(v.request) =>
                  /\ "Access-Control-Allow-Origin" \in DOMAIN v.response.headers
                  /\ v.response.headers["Access-Control-Allow-Origin"]
                        = <<v.request.headers["origin"]>>
            /\ ~OriginAllowed(v.request) =>
                  /\ "Access-Control-Allow-Origin" \notin DOMAIN v.response.headers
                  /\ v.request.method = "OPTIONS" => v.response.status = 204
                  /\ (v.request.method # "OPTIONS" /\ NothingFails(v)) =>
                        /\ v.calls.run + v.calls.stream = 1
                        /\ (v.pc = "done" /\ v.calls.run = 1 /\ flow.run.ok) =>
                              v.response.status = 200

\* Allow-list ["https://a.com"], request from https://b.com: answered 200 with
\* the flow's result and no Access-Control-Allow-Origin
C19_Witness ==
    \E i \in Active :
        /\ AllowedOrigins = {"https://a.com"}
        /\ "origin" \in DOMAIN inv[i].request.headers
        /\ inv[i].request.headers["origin"] = "https://b.com"
        /\ inv[i].pc = "done"
        /\ inv[i].response.status = 200
        /\ inv[i].calls.run = 1
        /\ "Access-Control-Allow-Origin" \notin DOMAIN inv[i].response.headers
        /\ "Access-Control-Allow-Methods" \in DOMAIN inv[i].response.headers

\* Request from https://a.com
C19_WitnessListed ==
    \E i \in Active :
        /\ AllowedOrigins = {"https://a.com"}
        /\ inv[i].handler = "returned"
        /\ OriginAllowed(inv[i].request)
        /\ inv[i].response.headers["Access-Control-Allow-Origin"] = <<"https://a.com">>


\* The attempts of an invocation: reads of the body, calls of the provider
\* and executions of the flow
Attempts(v) == <<v.calls.text, v.calls.provider, v.calls.run, v.calls.stream>>

\* C20: a single HTTP request yields a single attempt.  Per request the body
\* is read at most once, the context provider is invoked at most once and the
\* flow is executed at most once (flow.run or flow.stream, never both); and
\* once a failure was raised, of decoding, of the provider or of the flow, no
\* step of the invocation reads, authorizes or executes again.
C20_SingleAttempt ==
    /\ [](\A i \in Ids :
            /\ inv[i].calls.text <= 1
            /\ inv[i].calls.provider <= 1
            /\ inv[i].calls.run + inv[i].calls.stream <= 1
            /\ Len(inv[i].flowCalls) = inv[i].calls.run + inv[i].calls.stream
            /\ inv[i].calls.normalize + inv[i].calls.callableJSON <= 1)
    /\ [][\A i \in Ids :
            inv[i].caught # NoError =>
                /\ Attempts(inv'[i]) = Attempts(inv[i])
                /\ inv'[i].flowCalls = inv[i].flowCalls
                /\ inv'[i].caught = inv[i].caught]_vars

\* The flow failed after the provider had let the request through: one call
\* of each, and the error response
C20_Witness ==
    \E i \in Active :
        /\ inv[i].pc = "done"
        /\ inv[i].caught = PlainError("boom")
        /\ inv[i].calls.provider = 1
        /\ inv[i].calls.run = 1
        /\ inv[i].handler = "returned"
        /\ inv[i].response.status = 500


\* The request of the call without its header of that name
WithoutHeader(name) ==
    [auth.request EXCEPT
        !.headers = [n \in {x \in DOMAIN auth.request.headers :
                               ToLowerCase(x) # ToLowerCase(name)}
                        |-> auth.request.headers[n]]]

\* C29 (SpecAuth): requireHeader and requireApiKey treat a header that is
\* present with an empty value exactly like an absent header: the call fails
\* with UNAUTHENTICATED, as it does on the same request without the header,
\* also when the expected value or the expected key is the empty string.
C29_EmptyHeaderIsAbsent ==
    (auth.pc = "settled" /\ auth.provider[1] \in {"requireHeader", "requireApiKey"}) =>
        LET name == auth.provider[2] IN
        /\ RequestHeader(name) = Some("string", "") =>
              /\ FailsWith("UNAUTHENTICATED")
              /\ auth.result.err.message = MissingHeaderMessage(name)
              /\ auth.result =
                    CallProvider(auth.provider, toRequestData(WithoutHeader(name), Obj(<<>>)))
        /\ IsUndef(RequestHeader(name)) => FailsWith("UNAUTHENTICATED")

\* requireHeader("X-API-Key", "") on X-API-Key: with no value
C29_Witness ==
    /\ auth.pc = "settled"
    /\ auth.provider = <<"requireHeader", "X-API-Key", Some("string", "")>>
    /\ RequestHeader("X-API-Key") = Some("string", "")
    /\ FailsWith("UNAUTHENTICATED")

\* requireApiKey("X-API-Key", "") on the same request
C29_WitnessApiKey ==
    /\ auth.pc = "settled"
    /\ auth.provider = <<"requireApiKey", "X-API-Key", <<"literal", "">> >>
    /\ RequestHeader("X-API-Key") = Some("string", "")
    /\ FailsWith("UNAUTHENTICATED")

\* C30 (SpecAuth): with a callback validator, requireApiKey resolves to
\* {auth:{apiKey}} whenever the validator completes without raising, whatever
\* it returns; if the validator raises, what it raised comes out unchanged.
C30_ValidatorRejectsByRaising ==
    (SettledCallOf("requireApiKey") /\ auth.provider[3][1] = "validator") =>
        LET header == RequestHeader(auth.provider[2])
            callback == auth.provider[3][2]
        IN
        (~IsUndef(header) /\ header[2] # "") =>
            IF callback[1] = "throws"
            THEN ~auth.result.ok /\ auth.result.err = callback[2]
            ELSE auth.result.ok /\ auth.result.ctx = [auth |-> [apiKey |-> header[2]]]

\* The validator returns false: the key is accepted
C30_Witness ==
    /\ SettledCallOf("requireApiKey")
    /\ auth.provider[3] = <<"validator", <<"returns", Bool(FALSE)>> >>
    /\ RequestHeader("X-API-Key") = Some("string", "wrong")
    /\ auth.result.ok /\ auth.result.ctx = [auth |-> [apiKey |-> "wrong"]]

\* The validator raises a value that is no Error object
C30_WitnessRaises ==
    /\ SettledCallOf("requireApiKey")
    /\ RequestHeader("X-API-Key") = Some("string", "secret")
    /\ auth.result.err = NonError("revoked")


\* C21 (SpecHandle): run and stream of the returned object resolve the context
\* as the HTTP handler does: a configured context provider is applied before
\* the flow executes.
C21_DirectCallAppliesProvider ==
    (app.call.pc = "done" /\ opts.contextProvider # NoProvider) =>
        /\ app.call.providerCalls = 1
        /\ app.call.flowCalls # <<>>

\* C22 (SpecHandle): when the flow's name cannot be determined, onCallGenkit
\* fails at registration: no trigger is registered and nothing is returned.
C22_NamelessFlowNotRegistered ==
    (app.pc # "start" /\ (IsUndef(flow.action) \/ IsUndef(flow.action[2]))) =>
        /\ app.triggers = <<>>
        /\ IsUndef(app.returned)


\* What the handler computes from the request of v alone
OwnCorsHeaders(v) == buildCorsHeaders(opts.cors, getRequestOrigin(v.request))
OwnInput(v) == parseRequestBody(v.request).val
OwnContext(v) == resolveActionContext(opts, v.request, v.azureContext, OwnInput(v)).ctx

\* C23 (SpecConcurrent: two requests in flight on the same handler, their
\* steps interleaved in every way): every call of the flow made for a request
\* carries the input and the resolved context of that request, every response
\* carries the headers built from that request's origin, and no step of the
\* handling writes the configuration or the flow.
C23_RequestsAreIsolated ==
    /\ [](\A i \in Ids :
            LET v == inv[i] IN
            /\ \A k \in DOMAIN v.flowCalls :
                  /\ v.flowCalls[k][2] = OwnInput(v)
                  /\ v.flowCalls[k][3] = OwnContext(v)
            /\ v.pc \notin {"start"} => v.corsHeaders = OwnCorsHeaders(v)
            /\ v.handler = "returned" =>
                  v.response.headers \in {OwnCorsHeaders(v), SseHeaders(OwnCorsHeaders(v))})
    /\ [][opts' = opts /\ flow' = flow]_vars

\* Both requests reached the flow, with different inputs and contexts, and
\* were answered with different headers.
C23_Witness ==
    /\ \A i \in Ids : inv[i].pc = "done" /\ inv[i].handler = "returned"
                         /\ inv[i].flowCalls # <<>>
    /\ inv[1].flowCalls[1][2] # inv[2].flowCalls[1][2]
    /\ inv[1].flowCalls[1][3] # inv[2].flowCalls[1][3]
    /\ inv[1].response.headers # inv[2].response.headers


\* C24: in the SSE branch the response (status 200 and the event-stream
\* headers) has been handed back from the moment the stream is opened, before
\* the flow has yielded anything or completed; every chunk taken from the flow
\* has its message record written, at its own position, before the next chunk
\* is taken, and while the flow is running the records written are exactly
\* those of the chunks taken.
C24_SseWritesAsItGoes ==
    \A i \in Active :
        LET v == inv[i] IN
        InSseBranch(v) =>
            /\ v.handler = "returned"
            /\ v.response = [status |-> 200, headers |-> SseHeaders(v.corsHeaders),
                             body |-> StreamBody]
            /\ Len(v.sse) >= Len(v.flowChunks)
            /\ \A k \in DOMAIN v.flowChunks : v.sse[k] = MessageRecord(v.flowChunks[k])
            /\ v.pc \in {"streaming", "awaitOutput"} => Len(v.sse) = Len(v.flowChunks)

\* The response is back and the first record is written while the flow runs
C24_Witness ==
    /\ inv[1].pc = "streaming" /\ inv[1].handler = "returned"
    /\ inv[1].response.status = 200
    /\ inv[1].flowChunks = <<Str("a")>>
    /\ inv[1].sse = <<MessageRecord(Str("a"))>>
    /\ ~inv[1].flowStreamEnded /\ IsUndef(inv[1].flowOutput)

\* The response is back before the flow has yielded anything
C24_WitnessOpened ==
    /\ inv[1].pc = "streaming" /\ inv[1].handler = "returned"
    /\ inv[1].flowChunks = <<>> /\ inv[1].sse = <<>>

\* The body of the request of v does not decode
DecodeFails(v) == v.request.method # "OPTIONS" /\ ~parseRequestBody(v.request).ok

\* C26: the body is decoded before the context is resolved: for a request
\* whose body is malformed JSON the context provider is never invoked, nor the
\* flow, the failure caught is the INVALID_ARGUMENT error of the decoder and
\* the response is the error response of that failure (with no override:
\* its mapped status and the body {error:{status:"INVALID_ARGUMENT", ...}}),
\* whether or not the request carries credentials.
C26_DecodePrecedesContext ==
    \A i \in Active :
        LET v == inv[i] IN
        DecodeFails(v) =>
            /\ v.calls.provider = 0 /\ v.calls.run = 0 /\ v.calls.stream = 0
            /\ v.flowCalls = <<>>
            /\ v.pc \in {"catch", "done"} => v.caught = InvalidJson
            /\ v.handler = "returned" =>
                  /\ v.response = buildErrorResponse(opts, InvalidJson, v.corsHeaders).response
                  /\ opts.onError = NoOnError =>
                        /\ v.response.status = getHttpStatus(InvalidJson)
                        /\ v.response.body = JsonBody(getCallableJSON(InvalidJson))
                        /\ Get(Get(v.response.body[2], "error"), "status")
                              = Str("INVALID_ARGUMENT")

\* A malformed body without the API key the provider requires: the answer is
\* that of the decoder
C26_Witness ==
    /\ inv[1].pc = "done" /\ inv[1].handler = "returned"
    /\ inv[1].request.body.text = BodyMalformed
    /\ "X-API-Key" \notin DOMAIN inv[1].request.headers
    /\ opts.contextProvider = <<"requireApiKey", "X-API-Key", <<"literal", "secret">> >>
    /\ opts.onError = NoOnError
    /\ inv[1].calls.provider = 0
    /\ inv[1].response.body = JsonBody(getCallableJSON(InvalidJson))

\* Decoding or context resolution fails for the request of v
SetupFails(v) == v.request.method # "OPTIONS" /\ ~NothingFails(v)

\* C27: in streaming mode a request that accepts text/event-stream and whose
\* decoding or context resolution fails never gets a stream: flow.stream is
\* not invoked, nothing is written, and the response is the buffered JSON
\* error response of the failure (with no override: its mapped status), never
\* the 200 event-stream response.
C27_SseOnlyAfterSetup ==
    \A i \in Active :
        LET v == inv[i] IN
        (v.streaming /\ clientWantsStreaming(v.request) /\ SetupFails(v)) =>
            /\ v.calls.stream = 0 /\ v.calls.run = 0
            /\ v.streamState = "none" /\ v.sse = <<>>
            /\ v.handler = "returned" =>
                  /\ v.response = buildErrorResponse(opts, v.caught, v.corsHeaders).response
                  /\ v.response.body[1] = "json"
                  /\ HasKey(v.response.body[2], "error")
                  /\ v.response.status # 200
                  /\ v.response.headers = v.corsHeaders
                  /\ "Content-Type" \in DOMAIN v.response.headers =>
                        v.response.headers["Content-Type"] # <<"text/event-stream">>
                  /\ opts.onError = NoOnError =>
                        v.response.status = getHttpStatus(v.caught)

\* The provider refuses a request that asked for an event stream
C27_Witness ==
    /\ inv[1].pc = "done" /\ inv[1].handler = "returned"
    /\ inv[1].streaming /\ clientWantsStreaming(inv[1].request)
    /\ parseRequestBody(inv[1].request).ok
    /\ inv[1].calls.provider = 1
    /\ inv[1].caught = UserFacingError("PERMISSION_DENIED", "Invalid API key")
    /\ inv[1].response.body = JsonBody(getCallableJSON(inv[1].caught))

\* The same for a body that does not decode
C27_WitnessDecode ==
    /\ inv[1].pc = "done" /\ inv[1].handler = "returned"
    /\ inv[1].streaming /\ clientWantsStreaming(inv[1].request)
    /\ inv[1].caught = InvalidJson
    /\ inv[1].response.body[1] = "json"

\* The kinds of the records of a stream: "message", "result" or "error"
RecordKind(record) == RecordPayload(record).val[2][1][1]

TerminalRecords(v) == {k \in DOMAIN v.sse : RecordKind(v.sse[k]) \in {"result", "error"}}

\* C28: a stream of the SSE branch is closed at most once; once the handling
\* is over it is closed, and a closed stream holds exactly one terminal
\* record, a result record or an error record, which is its last record;
\* a stream that is still open holds message records only.
C28_OneTerminalRecord ==
    \A i \in Active :
        LET v == inv[i] IN
        InSseBranch(v) =>
            /\ \A k \in DOMAIN v.sse :
                  IsSseRecord(v.sse[k]) /\ RecordKind(v.sse[k]) \in {"message", "result", "error"}
            /\ v.streamState \in {"open", "closed"}
            /\ v.closes = (IF v.streamState = "closed" THEN 1 ELSE 0)
            /\ v.pc = "done" <=> v.streamState = "closed"
            /\ TerminalRecords(v) = (IF v.streamState = "closed" THEN {Len(v.sse)} ELSE {})

\* A stream closed after two message records and the result record
C28_Witness ==
    /\ inv[1].streamState = "closed" /\ inv[1].closes = 1
    /\ Len(inv[1].sse) = 3
    /\ RecordKind(inv[1].sse[3]) = "result"
    /\ RecordKind(inv[1].sse[1]) = "message"

\* A stream closed after one message record and the error record
C28_WitnessError ==
    /\ inv[1].streamState = "closed" /\ inv[1].closes = 1
    /\ Len(inv[1].sse) = 2
    /\ RecordKind(inv[1].sse[2]) = "error"


\* What the flow did in the invocation v: the chunks it yielded, whether the
\* sequence ended, how the output settled, and what the stream raised
FlowBehaviour(v) ==
    <<v.flowChunks, v.flowStreamEnded, v.flowOutput,
      IF InSseBranch(v) THEN v.caught ELSE NoError>>

\* All of an invocation that is not its log: the response or rejection, the
\* records written, the calls of the provider, of the flow and of the override
Observable(v) ==
    <<v.handler, v.response, v.rejection, v.sse, v.streamState, v.closes,
      v.flowCalls, v.calls, v.onErrorArg, v.caught, v.input, v.actionContext>>

\* C25 (SpecDebug: the same request handled with debug logging off, 1, and
\* on, 2): whenever the flow behaves the same in both, the two handlings end
\* with the same response, the same records and the same calls of the
\* provider, the flow and the override; only the log differs.
C25_DebugIsNoInput ==
    (inv[1].pc = "done" /\ inv[2].pc = "done"
        /\ FlowBehaviour(inv[1]) = FlowBehaviour(inv[2])) =>
            Observable(inv[1]) = Observable(inv[2])

\* Both handlings ran the flow; only the second logged
C25_Witness ==
    /\ inv[1].pc = "done" /\ inv[2].pc = "done"
    /\ ~inv[1].debug /\ inv[2].debug
    /\ FlowBehaviour(inv[1]) = FlowBehaviour(inv[2])
    /\ inv[1].flowCalls # <<>>
    /\ inv[1].log = <<>> /\ inv[2].log # <<>>
    /\ Observable(inv[1]) = Observable(inv[2])

\* The same in the SSE branch, after a chunk
C25_WitnessSse ==
    /\ inv[1].pc = "done" /\ inv[2].pc = "done"
    /\ FlowBehaviour(inv[1]) = FlowBehaviour(inv[2])
    /\ Len(inv[1].sse) = 2 /\ inv[1].sse = inv[2].sse
    /\ inv[1].log # inv[2].log

====
